---- MODULE Spec2Model ----
(***************************************************************************)
(* Offline-first synchronisation layer of LFBBC-Finances.                  *)
(*                                                                         *)
(* src/src/contexts/AppProvider.tsx holds two versions of the provider:    *)
(*   "batch"  lines   1-378: one api.batchProcess call per pass, a delta   *)
(*            pull (api.getChangesSince), mergeData and a watermark;       *)
(*   "perop"  lines 381-722: one remote call per queued operation          *)
(*            (src/src/lib/data.ts), a full pull (api.getData) that        *)
(*            overwrites the local collections.                            *)
(* The variable `variant` says which version a behaviour runs.             *)
(*                                                                         *)
(* Fields `src` (of an entity) and `n` (of an operation) and the pass      *)
(* fields `result`, `failedOp`, `pulled`, `quietStart`, as well as the     *)
(* variables `replayed` and `quiet`, are history: no guard reads them.     *)
(***************************************************************************)
EXTENDS Integers, Sequences, FiniteSets, TLC

\* ------------------------------------------------------------- bounds
\* External events of one behaviour: mutation calls, syncWithCloud calls,
\* injected network failures, restarts.
MaxEvents == 4
\* syncWithCloud calls that may be in flight together.
MaxPasses == 2

\* ---------------------------------------------------- program constants
Kinds == {"integrantes", "razones", "financialRecords"}
Variants == {"batch", "perop"}
isFirebaseConfigured == TRUE
\* getFromLocalStorage('lastSyncTimestamp', null)
Null == -1

VARIABLES
    variant,      \* which version of the provider runs
    localData,    \* React state: integrantes, razones, financialRecords
    pendingOps,   \* React state: the pending-operation queue
    loading,      \* React state
    error,        \* React state: setError was called
    report,       \* last outcome shown to the user / thrown to the caller
    storage,      \* window.localStorage
    remote,       \* the hosted document store, per collection
    now,          \* new Date().getTime()
    nextId,       \* next identifier uuidv4() / addDoc hands out
    passes,       \* the syncWithCloud calls
    events,       \* external events so far
    replayed,     \* history: the operations (n) some remote call applied
    quiet         \* history: nothing changed since the last successful pass

vars == <<variant, localData, pendingOps, loading, error, report, storage,
          remote, now, nextId, passes, events, replayed, quiet>>

\* ---------------------------------------------------------- data helpers
Slots == 1..MaxPasses

Entity(id, name, prot, t) ==
    [id |-> id, name |-> name, isProtected |-> prot, updatedAt |-> t,
     isDeleted |-> FALSE, src |-> id]

Op(n, type, kind, id, name, prot, t) ==
    [n |-> n, type |-> type, collection |-> kind, id |-> id, name |-> name,
     isProtected |-> prot, updatedAt |-> t]

Ids(s) == {s[i].id : i \in DOMAIN s}

IdlePass ==
    [pc |-> "idle", opsToSync |-> <<>>, done |-> 0, lastSync |-> Null,
     result |-> "none", failedOp |-> 0, pulled |-> FALSE, quietStart |-> FALSE]

InFlight == {p \in Slots : passes[p].pc # "idle"}

\* The documents of a query, in document-identifier order.
RECURSIVE SortById(_)
SortById(docs) ==
    IF docs = {} THEN <<>>
    ELSE LET m == CHOOSE d \in docs : \A e \in docs : d.id <= e.id
         IN  <<m>> \o SortById(docs \ {m})

\* localDataMap.set(item.id, item): replaces in place, or appends.
Upsert(s, c) ==
    IF c.id \in Ids(s)
    THEN [i \in DOMAIN s |-> IF s[i].id = c.id THEN c ELSE s[i]]
    ELSE Append(s, c)

RECURSIVE SetAll(_, _)
SetAll(s, cs) ==
    IF cs = <<>> THEN s ELSE SetAll(Upsert(s, Head(cs)), Tail(cs))

NotDeleted(e) == ~e.isDeleted

\* A merge that leaves the deleted entities in.
mergeData_KeepsDeleted(local, cloudChanges) ==
    SetAll(SetAll(<<>>, local), cloudChanges)

\* A merge that keeps only what the pull returned.
mergeData_CloudOnly(local, cloudChanges) ==
    SelectSeq(cloudChanges, NotDeleted)

mergeData(local, cloudChanges) ==
    SelectSeq(SetAll(SetAll(<<>>, local), cloudChanges), NotDeleted)

\* ------------------------------------------------------------ persistence
Stored ==
    [integrantes |-> localData["integrantes"],
     razones |-> localData["razones"],
     financialRecords |-> localData["financialRecords"],
     pendingOps |-> pendingOps,
     lastSyncTimestamp |-> storage.lastSyncTimestamp]

Persisted == storage = Stored

\* useEffect(() => setToLocalStorage(key, state), [state]) for the four keys:
\* runs after the render that follows a state change.
PersistEffects ==
    /\ ~Persisted
    /\ storage' = Stored
    /\ UNCHANGED <<variant, localData, pendingOps, loading, error, report,
                   remote, now, nextId, passes, events, replayed, quiet>>

\* ------------------------------------------------------------ Mutation API
\* The batch version stamps createdAt/updatedAt; the perop version has no
\* timestamps.
Stamp == IF variant = "batch" THEN now ELSE 0

\* What the user types: a name not used before.
NewName == now

\* An addPendingOp that queues nothing.
addPendingOp_Drops(op) == pendingOps

\* An addPendingOp that queues at the head.
addPendingOp_AtHead(op) == <<op>> \o pendingOps

addPendingOp(op) == Append(pendingOps, op)

CanCall == events < MaxEvents /\ Persisted

\* prev.map(r => r.id === id ? { ...r, ...updates } : r)
Renamed(s, id, name) ==
    [i \in DOMAIN s |->
        IF s[i].id = id
        THEN [s[i] EXCEPT !.name = name,
                          !.updatedAt = IF variant = "batch" THEN now ELSE @]
        ELSE s[i]]

\* prev.filter(r => r.id !== id)
Without(s, id) == LET keep(e) == e.id # id IN SelectSeq(s, keep)

\* addFinancialRecord / addIntegrante / addRazon
AddEntity(k) ==
    /\ CanCall
    /\ LET e == Entity(nextId, NewName, FALSE, Stamp)
       IN  /\ localData' = [localData EXCEPT ![k] = Append(@, e)]
           /\ pendingOps' = addPendingOp(
                  Op(events + 1, "add", k, e.id, e.name, e.isProtected, e.updatedAt))
    /\ nextId' = nextId + 1
    /\ now' = now + 1
    /\ events' = events + 1
    /\ quiet' = FALSE
    /\ UNCHANGED <<variant, loading, error, report, storage, remote, passes,
                   replayed>>

\* updateFinancialRecord / updateIntegrante / updateRazon
UpdateEntity(k, id) ==
    /\ CanCall
    /\ id \in Ids(localData[k])
    /\ localData' = [localData EXCEPT ![k] = Renamed(@, id, NewName)]
    /\ pendingOps' = addPendingOp(Op(events + 1, "update", k, id, NewName, FALSE, Stamp))
    /\ now' = now + 1
    /\ events' = events + 1
    /\ quiet' = FALSE
    /\ UNCHANGED <<variant, loading, error, report, storage, remote, nextId,
                   passes, replayed>>

\* deleteFinancialRecord / deleteIntegrante / deleteRazon
DeleteEntity(k, id) ==
    /\ CanCall
    /\ id \in Ids(localData[k])
    /\ localData' = [localData EXCEPT ![k] = Without(@, id)]
    /\ pendingOps' = addPendingOp(Op(events + 1, "delete", k, id, 0, FALSE, 0))
    /\ events' = events + 1
    /\ quiet' = FALSE
    /\ UNCHANGED <<variant, loading, error, report, storage, remote, now,
                   nextId, passes, replayed>>

\* importIntegrantesLocal / importRazonesLocal / importFinancialRecordsLocal
\* of one row: replace keeps the protected members and reasons and no record;
\* nothing is queued.
ImportLocal(k, mode) ==
    /\ CanCall
    /\ LET e == Entity(nextId, NewName, FALSE, Stamp)
           protected(x) == x.isProtected /\ k # "financialRecords"
           kept == IF mode = "replace" THEN SelectSeq(localData[k], protected)
                   ELSE localData[k]
       IN  localData' = [localData EXCEPT ![k] = Append(kept, e)]
    /\ nextId' = nextId + 1
    /\ now' = now + 1
    /\ events' = events + 1
    /\ quiet' = FALSE
    /\ UNCHANGED <<variant, pendingOps, loading, error, report, storage,
                   remote, passes, replayed>>

\* ------------------------------------------------- remote store, perop API
Exists(r, k, id) == \E d \in r[k] : d.id = id
Doc(r, k, id) == CHOOSE d \in r[k] : d.id = id

\* updateIntegrante, deleteIntegrante, updateRazon and deleteRazon read the
\* document and throw when it is protected; the record functions do not.
GuardsProtected(k) == k \in {"integrantes", "razones"}

\* addIntegrante and addRazon look the name up first; addFinancialRecord
\* always adds.
ChecksName(k) == k \in {"integrantes", "razones"}

\* How the remote call replaying op ends: "ok", or the reason it throws.
\* updateDoc throws on a document that does not exist; deleteDoc does not.
RemoteOutcome(op, r) ==
    IF op.type = "add" THEN "ok"
    ELSE IF /\ GuardsProtected(op.collection)
            /\ Exists(r, op.collection, op.id)
            /\ Doc(r, op.collection, op.id).isProtected
         THEN "protected"
    ELSE IF op.type = "update" /\ ~Exists(r, op.collection, op.id)
         THEN "notfound"
    ELSE "ok"

\* The store after a call that did not throw. addDoc names the new document
\* newId; the payload of an add carries no identifier.
RemoteApply(op, r, newId) ==
    LET k == op.collection IN
    CASE op.type = "add" ->
           IF ChecksName(k) /\ \E d \in r[k] : d.name = op.name
           THEN r
           ELSE [r EXCEPT ![k] = @ \cup
                    {[id |-> newId, name |-> op.name, isProtected |-> op.isProtected,
                      updatedAt |-> 0, isDeleted |-> FALSE, src |-> op.id]}]
      [] op.type = "update" ->
           [r EXCEPT ![k] = (@ \ {Doc(r, k, op.id)})
                            \cup {[Doc(r, k, op.id) EXCEPT !.name = op.name]}]
      [] op.type = "delete" ->
           [r EXCEPT ![k] = {d \in @ : d.id # op.id}]

getData(r, k) == SortById(r[k])

\* ------------------------------------------------- remote store, batch API
\* One write of a batch: create with the payload's identifier, partial
\* update, soft delete stamped t.
ApplyBatchOp(r, op, t) ==
    LET k == op.collection IN
    CASE op.type = "add" ->
           [r EXCEPT ![k] = {d \in @ : d.id # op.id} \cup
                {Entity(op.id, op.name, op.isProtected, op.updatedAt)}]
      [] op.type = "update" ->
           IF Exists(r, k, op.id)
           THEN [r EXCEPT ![k] = (@ \ {Doc(r, k, op.id)}) \cup
                    {[Doc(r, k, op.id) EXCEPT !.name = op.name,
                                              !.updatedAt = op.updatedAt]}]
           ELSE r
      [] op.type = "delete" ->
           IF Exists(r, k, op.id)
           THEN [r EXCEPT ![k] = (@ \ {Doc(r, k, op.id)}) \cup
                    {[Doc(r, k, op.id) EXCEPT !.isDeleted = TRUE, !.updatedAt = t]}]
           ELSE r

RECURSIVE batchProcess(_, _, _)
batchProcess(ops, r, t) ==
    IF ops = <<>> THEN r
    ELSE batchProcess(Tail(ops), ApplyBatchOp(r, Head(ops), t), t)

getChangesSince(r, ts) ==
    [k \in Kinds |-> SortById({d \in r[k] : ts = Null \/ d.updatedAt > ts})]

\* ------------------------------------------------------------ syncWithCloud
FreeSlot == CHOOSE p \in Slots \ InFlight : \A q \in Slots \ InFlight : p <= q

\* The call up to its first await: the guard, setLoading(true), the read of
\* the watermark, the snapshot of pendingOps, and the first request (the
\* push, or the pull when the snapshot is empty).
syncWithCloud ==
    /\ CanCall
    /\ Slots \ InFlight # {}
    /\ events' = events + 1
    /\ IF ~isFirebaseConfigured
       THEN /\ report' = "error"
            /\ UNCHANGED <<loading, passes>>
       ELSE /\ loading' = TRUE
            /\ passes' = [passes EXCEPT ![FreeSlot] =
                   [pc |-> IF pendingOps = <<>> THEN "pull" ELSE "push",
                    opsToSync |-> pendingOps,
                    done |-> 0,
                    lastSync |-> IF variant = "batch"
                                 THEN storage.lastSyncTimestamp ELSE Null,
                    result |-> "none",
                    failedOp |-> 0,
                    pulled |-> pendingOps = <<>>,
                    quietStart |-> quiet /\ InFlight = {}]]
            /\ UNCHANGED report
    /\ UNCHANGED <<variant, localData, pendingOps, error, storage, remote,
                   now, nextId, replayed, quiet>>

\* A catch that also empties the queue.
FailPass_ClearsQueue(p, cause, n) ==
    /\ error' = TRUE
    /\ report' = "error"
    /\ loading' = FALSE
    /\ passes' = [passes EXCEPT ![p].pc = "idle", ![p].result = cause,
                                ![p].failedOp = n]
    /\ pendingOps' = <<>>
    /\ UNCHANGED <<localData, storage>>

\* A catch that swallows the failure of the push and goes on to the pull.
FailPass_GoesOnToPull(p, cause, n) ==
    /\ error' = TRUE
    /\ report' = "error"
    /\ loading' = loading
    /\ passes' = [passes EXCEPT ![p].pc = "pull", ![p].pulled = TRUE,
                                ![p].failedOp = n]
    /\ UNCHANGED <<localData, pendingOps, storage>>

\* A catch with no finally: loading stays as it is.
FailPass_KeepsLoading(p, cause, n) ==
    /\ error' = TRUE
    /\ report' = "error"
    /\ loading' = loading
    /\ passes' = [passes EXCEPT ![p].pc = "idle", ![p].result = cause,
                                ![p].failedOp = n]
    /\ UNCHANGED <<localData, pendingOps, storage>>

\* catch (e) { setError(err); toast / throw } finally { setLoading(false) }
\* cause: why the remote call threw; n: the operation it replayed, 0 for a
\* batch or a pull.
FailPass(p, cause, n) ==
    /\ error' = TRUE
    /\ report' = "error"
    /\ loading' = FALSE
    /\ passes' = [passes EXCEPT ![p].pc = "idle", ![p].result = cause,
                                ![p].failedOp = n]
    /\ UNCHANGED <<localData, pendingOps, storage>>

\* After the push of the whole snapshot: setPendingOps([]), then the pull
\* request is issued.
PushDone(p) ==
    /\ pendingOps' = <<>>
    /\ passes' = [passes EXCEPT ![p].pc = "pull", ![p].pulled = TRUE,
                                ![p].done = Len(passes[p].opsToSync)]

\* batch: await api.batchProcess(opsToSync) returns.
BatchOk(p) ==
    /\ Persisted
    /\ variant = "batch"
    /\ passes[p].pc = "push"
    /\ remote' = batchProcess(passes[p].opsToSync, remote, now)
    /\ now' = now + 1
    /\ PushDone(p)
    /\ replayed' = replayed \cup
           {passes[p].opsToSync[i].n : i \in DOMAIN passes[p].opsToSync}
    /\ quiet' = FALSE
    /\ UNCHANGED <<variant, localData, loading, error, report, storage,
                   nextId, events>>

\* perop: the remote call of the next operation of the snapshot returns or
\* throws for a reason the store decides.
PushOp(p) ==
    /\ Persisted
    /\ variant = "perop"
    /\ passes[p].pc = "push"
    /\ LET op == passes[p].opsToSync[passes[p].done + 1]
           out == RemoteOutcome(op, remote)
       IN  IF out = "ok"
           THEN /\ remote' = RemoteApply(op, remote, nextId)
                /\ nextId' = IF op.type = "add" THEN nextId + 1 ELSE nextId
                /\ IF passes[p].done + 1 = Len(passes[p].opsToSync)
                   THEN PushDone(p)
                   ELSE /\ passes' = [passes EXCEPT ![p].done = @ + 1]
                        /\ UNCHANGED pendingOps
                /\ replayed' = replayed \cup {op.n}
                /\ quiet' = FALSE
                /\ UNCHANGED <<localData, loading, error, report, storage>>
           ELSE /\ FailPass(p, out, op.n)
                /\ UNCHANGED <<remote, nextId, replayed, quiet>>
    /\ UNCHANGED <<variant, now, events>>

\* The push request fails: the store is unreachable.
PushFails(p) ==
    /\ CanCall
    /\ passes[p].pc = "push"
    /\ events' = events + 1
    /\ FailPass(p, "network",
                IF variant = "perop"
                THEN passes[p].opsToSync[passes[p].done + 1].n ELSE 0)
    /\ UNCHANGED <<variant, remote, now, nextId, replayed, quiet>>

\* The pull returns: the merge (batch) or the overwrite (perop) of the three
\* collections, the watermark, the toast, setLoading(false).
PullOk(p) ==
    /\ Persisted
    /\ passes[p].pc = "pull"
    /\ IF variant = "batch"
       THEN LET cloud == getChangesSince(remote, passes[p].lastSync)
            IN  /\ localData' = [k \in Kinds |-> mergeData(localData[k], cloud[k])]
                /\ storage' = [storage EXCEPT !.lastSyncTimestamp = now]
                /\ now' = now + 1
                /\ report' = "ok"
       ELSE /\ localData' = [k \in Kinds |-> getData(remote, k)]
            /\ UNCHANGED <<storage, now, report>>
    /\ loading' = FALSE
    /\ passes' = [passes EXCEPT ![p].pc = "idle", ![p].result = "ok"]
    /\ quiet' = (pendingOps = <<>> /\ InFlight = {p})
    /\ UNCHANGED <<variant, pendingOps, error, remote, nextId, events, replayed>>

\* The pull request fails: the store is unreachable.
PullFails(p) ==
    /\ CanCall
    /\ passes[p].pc = "pull"
    /\ events' = events + 1
    /\ FailPass(p, "network", 0)
    /\ UNCHANGED <<variant, remote, now, nextId, replayed, quiet>>

\* The page is closed and opened again: the provider is constructed from
\* localStorage (useState initialisers, the mount effect); calls in flight
\* are gone.
Restart ==
    /\ events < MaxEvents
    /\ events' = events + 1
    /\ localData' = [k \in Kinds |-> storage[k]]
    /\ pendingOps' = storage.pendingOps
    /\ loading' = FALSE
    /\ error' = FALSE
    /\ report' = "none"
    /\ passes' = [p \in Slots |-> IdlePass]
    /\ quiet' = FALSE
    /\ UNCHANGED <<variant, storage, remote, now, nextId, replayed>>

\* ------------------------------------------------------------ specification
\* A protected member written by an earlier session (seedData).
Seed ==
    [id |-> 1, name |-> 1, isProtected |-> TRUE, updatedAt |-> 1,
     isDeleted |-> FALSE, src |-> 1]

Init ==
    /\ variant \in Variants
    /\ localData = [k \in Kinds |-> <<>>]
    /\ pendingOps = <<>>
    /\ loading = FALSE
    /\ error = FALSE
    /\ report = "none"
    /\ storage = [integrantes |-> <<>>, razones |-> <<>>,
                  financialRecords |-> <<>>, pendingOps |-> <<>>,
                  lastSyncTimestamp |-> Null]
    /\ remote = [k \in Kinds |-> IF k = "integrantes" THEN {Seed} ELSE {}]
    /\ now = 2
    /\ nextId = 2
    /\ passes = [p \in Slots |-> IdlePass]
    /\ events = 0
    /\ replayed = {}
    /\ quiet = FALSE

Next ==
    \/ PersistEffects
    \/ \E k \in Kinds : AddEntity(k)
    \/ \E k \in Kinds : \E id \in Ids(localData[k]) : UpdateEntity(k, id)
    \/ \E k \in Kinds : \E id \in Ids(localData[k]) : DeleteEntity(k, id)
    \/ \E mode \in {"add", "replace"} : ImportLocal("integrantes", mode)
    \/ syncWithCloud
    \/ \E p \in Slots : BatchOk(p)
    \/ \E p \in Slots : PushOp(p)
    \/ \E p \in Slots : PushFails(p)
    \/ \E p \in Slots : PullOk(p)
    \/ \E p \in Slots : PullFails(p)
    \/ Restart

Spec == Init /\ [][Next]_vars

\* ------------------------------------------------------------------ claims
Range(s) == {s[i] : i \in DOMAIN s}
Numbers(s) == {s[i].n : i \in DOMAIN s}

\* sub occurs in s, in sub's order.
RECURSIVE InOrder(_, _)
InOrder(sub, s) ==
    IF sub = <<>> THEN TRUE
    ELSE IF s = <<>> THEN FALSE
    ELSE IF Head(sub) = Head(s) THEN InOrder(Tail(sub), Tail(s))
    ELSE InOrder(sub, Tail(s))

\* Pass p ends in this step because its push threw.
PushFailsNow(p) ==
    /\ passes[p].pc = "push"
    /\ passes'[p].pc = "idle"
    /\ passes'[p].result \in {"network", "protected", "notfound"}

\* Pass p ends in this step with its pull merged.
PullMergesNow(p) ==
    /\ passes[p].pc = "pull"
    /\ passes'[p].pc = "idle"
    /\ passes'[p].result = "ok"

\* Pass p's push of its whole snapshot completes in this step.
PushCompletesNow(p) ==
    /\ passes[p].pc = "push"
    /\ passes'[p].pc = "pull"

\* C1: when the push of a pass fails partway, every operation of its
\* snapshot that no remote call has applied is still in pendingOps, in the
\* snapshot's order, and the pass issued no pull.
C1_PartialPushRetainsQueue ==
    [][\A p \in Slots : PushFailsNow(p) =>
          /\ LET left(op) == op.n \notin replayed'
             IN  InOrder(SelectSeq(passes[p].opsToSync, left), pendingOps')
          /\ ~passes'[p].pulled]_vars

\* The queue is [Create A, Update A, Delete A] for one entity A.
IsCreateUpdateDelete(q) ==
    /\ Len(q) = 3
    /\ q[1].type = "add" /\ q[2].type = "update" /\ q[3].type = "delete"
    /\ q[2].collection = q[1].collection /\ q[3].collection = q[1].collection
    /\ q[2].id = q[1].id /\ q[3].id = q[1].id

C3_OnePassInFlight == Cardinality(InFlight) <= 1

\* C4: when a pass clears the queue after its push, every operation that was
\* queued and that no remote call has applied is still queued.
C4_AcknowledgedOnlyAfterReplay ==
    [][\A p \in Slots : PushCompletesNow(p) =>
          \A op \in Range(pendingOps) :
              op.n \notin replayed' => op \in Range(pendingOps')]_vars

\* Pass p ends in this step because the store was unreachable for the
\* request it had out.
UnreachableNow(p) ==
    /\ passes[p].pc \in {"push", "pull"}
    /\ passes'[p].pc = "idle"
    /\ passes'[p].result = "network"

C6_WatermarkAfterPersistedMerge ==
    [][storage'.lastSyncTimestamp # storage.lastSyncTimestamp =>
          \A k \in Kinds : storage'[k] = localData'[k]]_vars

\* Pass p ends in this step, successfully, having started when nothing had
\* changed since the previous successful pass ended, and nothing changed
\* since.
QuietPassEndsNow(p) ==
    /\ PullMergesNow(p)
    /\ passes[p].quietStart
    /\ quiet

\* C7 as stated: the second of two passes in a row, with no local mutation
\* and no remote change in between, leaves the three collections and the
\* watermark as the first pass left them.
C7_SecondPassChangesNothing ==
    [][\A p \in Slots : QuietPassEndsNow(p) =>
          /\ localData' = localData
          /\ storage'.lastSyncTimestamp = storage.lastSyncTimestamp]_vars

\* C7 amended: the second pass leaves the three collections as the first
\* pass left them (the watermark moves to the time the second pass ended).
C7_SecondPassKeepsCollections ==
    [][\A p \in Slots : QuietPassEndsNow(p) => localData' = localData]_vars

C7_Witness ==
    /\ quiet
    /\ \E p \in Slots : passes[p].result = "ok" /\ passes[p].quietStart
    /\ \E k \in Kinds : Len(localData[k]) >= 2

\* C8: a pass has a pull request out only when a remote call has applied
\* every operation of its snapshot.
C8_PushBeforePull ==
    \A p \in Slots :
        passes[p].pc = "pull" =>
            /\ Numbers(passes[p].opsToSync) \subseteq replayed
            /\ passes[p].done = Len(passes[p].opsToSync)

C8_Witness ==
    \E p \in Slots : passes[p].pc = "pull" /\ Len(passes[p].opsToSync) >= 2

\* The entity identified id in collection k of d, as a set (empty: absent).
Held(d, k, id) == {e \in Range(d[k]) : e.id = id}

\* C9: the merge of a pass leaves alone every local entity that an operation
\* still in pendingOps is about.
C9_MergeKeepsUnpushedMutations ==
    [][\A p \in Slots : PullMergesNow(p) =>
          \A op \in Range(pendingOps) :
              Held(localData', op.collection, op.id)
                  = Held(localData, op.collection, op.id)]_vars

\* C10: an operation the remote store rejected because its target is
\* protected is no longer in pendingOps.
C10_RejectedOperationDropped ==
    \A p \in Slots :
        passes[p].result = "protected" =>
            passes[p].failedOp \notin Numbers(pendingOps)

\* ------------------------------------------------ entity store and pages
\* The provider's collections with the entities' own fields, and the page
\* handlers that call it (members page, reasons page, records page).  The
\* actions below use localData, pendingOps, now, nextId, events and report;
\* a name is a sequence of letters.
MaxCalls == 3

Letters == {"a", "b", "A", "B"}

UpperOf(c) == IF c = "a" THEN "A" ELSE IF c = "b" THEN "B" ELSE c
LowerOf(c) == IF c = "A" THEN "a" ELSE IF c = "B" THEN "b" ELSE c

\* A conversion that leaves the letters as they are.
toUpperCase_Same(s) == s

toUpperCase(s) == [i \in DOMAIN s |-> UpperOf(s[i])]
toLowerCase(s) == [i \in DOMAIN s |-> LowerOf(s[i])]

\* { ...r, ...u }
Spread(r, u) ==
    [f \in DOMAIN r \cup DOMAIN u |-> IF f \in DOMAIN u THEN u[f] ELSE r[f]]

\* ---- dates: fecha is <<dd, MM, yyyy>>, or <<>> for the empty string
IsLeap(y) == (y % 4 = 0 /\ y % 100 # 0) \/ y % 400 = 0

DaysIn(m, y) ==
    IF m = 2 THEN (IF IsLeap(y) THEN 29 ELSE 28)
    ELSE IF m \in {4, 6, 9, 11} THEN 30 ELSE 31

InvalidDate == [invalid |-> TRUE, y |-> 0, m |-> 0, d |-> 0, ms |-> 0]

\* parse(dateStr, 'dd/MM/yyyy', new Date()): local midnight of the day, or
\* Invalid Date.
parseDate(f) ==
    IF /\ Len(f) = 3
       /\ f[2] \in 1..12
       /\ f[1] >= 1 /\ f[1] <= DaysIn(f[2], f[3])
    THEN [invalid |-> FALSE, y |-> f[3], m |-> f[2], d |-> f[1], ms |-> 0]
    ELSE InvalidDate

isValid(date) == ~date.invalid

startOfDay(date) == [date EXCEPT !.ms = 0]

\* The index without the isValid test.
recordDates_Unchecked ==
    {startOfDay(parseDate(r.fecha)) :
        r \in {x \in {localData["financialRecords"][i] :
                         i \in DOMAIN localData["financialRecords"]} :
                  x.fecha # <<>>}}

recordDates ==
    {startOfDay(parseDate(r.fecha)) :
        r \in {x \in {localData["financialRecords"][i] :
                         i \in DOMAIN localData["financialRecords"]} :
                  x.fecha # <<>> /\ isValid(parseDate(x.fecha))}}

\* ---- monto
abs(x) == IF x < 0 THEN -x ELSE x

\* The two if statements of addFinancialRecord.
\* No sign normalization.
NormalizedMonto_Raw(movimiento, monto) == monto

NormalizedMonto(movimiento, monto) ==
    LET m1 == IF movimiento \in {"GASTOS", "INVERSION"} /\ monto > 0
              THEN -monto ELSE monto
    IN  IF movimiento = "INGRESOS" /\ m1 < 0 THEN abs(m1) ELSE m1

\* ---- the provider's Mutation API (the first provider of AppProvider.tsx)
PendingOperation(type, collection, payload) ==
    [type |-> type, collection |-> collection, payload |-> payload]

Elems(s) == {s[i] : i \in DOMAIN s}

\* prev.map(e => e.id === id ? f(e) : e) with f = { ...e, ...u }
Patched(s, id, u) ==
    [i \in DOMAIN s |-> IF s[i].id = id THEN Spread(s[i], u) ELSE s[i]]

addFinancialRecord(record) ==
    LET newRecord ==
            Spread(record,
                   [monto |-> NormalizedMonto(record.movimiento, record.monto),
                    id |-> nextId, createdAt |-> now, updatedAt |-> now])
    IN  /\ localData' = [localData EXCEPT !["financialRecords"] =
                            Append(@, newRecord)]
        /\ pendingOps' = addPendingOp(
               PendingOperation("add", "financialRecords", newRecord))
        /\ nextId' = nextId + 1

updateFinancialRecord(id, updates) ==
    LET finalUpdates == Spread(updates, [updatedAt |-> now])
        local(r) == Spread(finalUpdates,
                        [fecha |-> IF "fecha" \in DOMAIN updates
                                      /\ updates.fecha # <<>>
                                   THEN updates.fecha ELSE r.fecha])
    IN  /\ localData' = [localData EXCEPT !["financialRecords"] =
               [i \in DOMAIN @ |->
                   IF @[i].id = id THEN Spread(@[i], local(@[i])) ELSE @[i]]]
        /\ pendingOps' = addPendingOp(
               PendingOperation("update", "financialRecords",
                                [id |-> id, updates |-> finalUpdates]))
        /\ UNCHANGED nextId

deleteFinancialRecord(id) ==
    /\ localData' = [localData EXCEPT !["financialRecords"] = Without(@, id)]
    /\ pendingOps' = addPendingOp(
           PendingOperation("delete", "financialRecords", [id |-> id]))
    /\ UNCHANGED nextId

addIntegrante(nombre, isProtected) ==
    LET newIntegrante ==
            [id |-> nextId, nombre |-> toUpperCase(nombre),
             isProtected |-> isProtected, createdAt |-> now, updatedAt |-> now]
    IN  /\ localData' = [localData EXCEPT !["integrantes"] =
                            Append(@, newIntegrante)]
        /\ pendingOps' = addPendingOp(
               PendingOperation("add", "integrantes", newIntegrante))
        /\ nextId' = nextId + 1

updateIntegrante(id, nombre) ==
    LET updates == [nombre |-> toUpperCase(nombre), updatedAt |-> now]
    IN  /\ localData' = [localData EXCEPT !["integrantes"] =
                            Patched(@, id, updates)]
        /\ pendingOps' = addPendingOp(
               PendingOperation("update", "integrantes",
                                [id |-> id, updates |-> updates]))
        /\ UNCHANGED nextId

deleteIntegrante(id) ==
    /\ localData' = [localData EXCEPT !["integrantes"] = Without(@, id)]
    /\ pendingOps' = addPendingOp(
           PendingOperation("delete", "integrantes", [id |-> id]))
    /\ UNCHANGED nextId

addRazon(descripcion, isQuickReason, isProtected) ==
    LET newRazon ==
            [id |-> nextId, descripcion |-> toUpperCase(descripcion),
             isQuickReason |-> isQuickReason, isProtected |-> isProtected,
             createdAt |-> now, updatedAt |-> now]
    IN  /\ localData' = [localData EXCEPT !["razones"] = Append(@, newRazon)]
        /\ pendingOps' = addPendingOp(
               PendingOperation("add", "razones", newRazon))
        /\ nextId' = nextId + 1

updateRazon(id, updates) ==
    LET finalUpdates ==
            Spread(updates,
                   [updatedAt |-> now,
                    descripcion |-> IF "descripcion" \in DOMAIN updates
                                    THEN toUpperCase(updates.descripcion)
                                    ELSE <<>>])
    IN  /\ localData' = [localData EXCEPT !["razones"] =
                            Patched(@, id, finalUpdates)]
        /\ pendingOps' = addPendingOp(
               PendingOperation("update", "razones",
                                [id |-> id, updates |-> finalUpdates]))
        /\ UNCHANGED nextId

deleteRazon(id) ==
    /\ localData' = [localData EXCEPT !["razones"] = Without(@, id)]
    /\ pendingOps' = addPendingOp(
           PendingOperation("delete", "razones", [id |-> id]))
    /\ UNCHANGED nextId

\* ---- local imports (no operation is queued)
IsProtectedEntity(e) == e.isProtected

\* A replace that keeps nothing.
KeptOnReplace_Nothing(s) == SubSeq(s, 1, 0)

\* finalIntegrantes.filter(i => i.isProtected)
KeptOnReplace(s) == SelectSeq(s, IsProtectedEntity)

\* map(i => ({ ...i, id: uuidv4(), createdAt: now, updatedAt: now }))
WithIds(rows) ==
    [i \in DOMAIN rows |->
        Spread(rows[i], [id |-> nextId + i - 1,
                         createdAt |-> now, updatedAt |-> now])]

UpperNombre(rows) ==
    [i \in DOMAIN rows |->
        Spread(rows[i], [nombre |-> toUpperCase(rows[i].nombre)])]

UpperDescripcion(rows) ==
    [i \in DOMAIN rows |->
        Spread(rows[i], [descripcion |-> toUpperCase(rows[i].descripcion)])]

importIntegrantesLocal(integrantesToImport, mode) ==
    LET kept == IF mode = "replace"
                THEN KeptOnReplace(localData["integrantes"])
                ELSE localData["integrantes"]
        newIntegrantes == WithIds(UpperNombre(integrantesToImport))
        existingNames == {toLowerCase(e.nombre) : e \in Elems(kept)}
        isNew(e) == toLowerCase(e.nombre) \notin existingNames
        toAdd == IF mode = "add" THEN SelectSeq(newIntegrantes, isNew)
                 ELSE newIntegrantes
    IN  /\ localData' = [localData EXCEPT !["integrantes"] = kept \o toAdd]
        /\ nextId' = nextId + Len(integrantesToImport)
        /\ UNCHANGED pendingOps

importRazonesLocal(razonesToImport, mode) ==
    LET kept == IF mode = "replace"
                THEN KeptOnReplace(localData["razones"])
                ELSE localData["razones"]
        newRazones == WithIds(UpperDescripcion(razonesToImport))
        existingDescriptions == {toLowerCase(e.descripcion) : e \in Elems(kept)}
        isNew(e) == toLowerCase(e.descripcion) \notin existingDescriptions
        toAdd == IF mode = "add" THEN SelectSeq(newRazones, isNew)
                 ELSE newRazones
    IN  /\ localData' = [localData EXCEPT !["razones"] = kept \o toAdd]
        /\ nextId' = nextId + Len(razonesToImport)
        /\ UNCHANGED pendingOps

importFinancialRecordsLocal(records, mode) ==
    /\ localData' = [localData EXCEPT !["financialRecords"] =
           IF mode = "add" THEN @ \o WithIds(records) ELSE WithIds(records)]
    /\ nextId' = nextId + Len(records)
    /\ UNCHANGED pendingOps

\* ---- page handlers
Names == {<<"a">>, <<"A">>, <<"b">>}
Movimientos == {"INGRESOS", "GASTOS", "INVERSION"}
\* The movimientos the calls are drawn from: INVERSION takes the branch of
\* GASTOS wherever the source reads movimiento.
FormMovimientos == {"INGRESOS", "GASTOS"}
Montos == {-200, 200}
\* What the record form can submit: monto is positive (recordSchema), fecha
\* comes from the date picker.
FormMontos == {m \in Montos : m > 0}
FormFechas == {<<1, 6, 2024>>}
\* CSV files of the members and reasons pages: the names of their rows.
NameFiles == {<< <<"b">> >>, << <<"a">>, <<"A">> >>}
\* records/page.tsx: the six required headers, the longest descripcion.
RecordHeaders == 6
DESCRIPTION_MAX_LENGTH == 500

\* A line of the records CSV: the number of its values, its columns, the
\* length of its descripcion.
RecordRow(fecha, integranteNombre, razonDescripcion, movimiento, monto) ==
    [values |-> RecordHeaders, fecha |-> fecha,
     integranteNombre |-> integranteNombre,
     razonDescripcion |-> razonDescripcion, movimiento |-> movimiento,
     monto |-> monto, descripcionLength |-> 0]

GoodRow == RecordRow(<<1, 6, 2024>>, <<"b">>, <<"b">>, "INGRESOS", 200)

\* CSV files of the records page: a row with the sign of monto wrong; a good
\* row and one of an impossible day and another reason; a good row and a
\* short line; a row with too long a descripcion and a good row.
RecordFiles ==
    { << RecordRow(<<1, 6, 2024>>, <<"b">>, <<"b">>, "GASTOS", 200) >>,
      << GoodRow,
         RecordRow(<<31, 2, 2024>>, <<"b">>, <<"a">>, "INGRESOS", -200) >>,
      << GoodRow, [GoodRow EXCEPT !.values = RecordHeaders - 1] >>,
      << [GoodRow EXCEPT !.descripcionLength = DESCRIPTION_MAX_LENGTH + 1],
         GoodRow >> }

NameOf(k, e) == IF k = "integrantes" THEN e.nombre ELSE e.descripcion

\* some(e => e.id !== id && name(e).toLowerCase() === name.toLowerCase())
NameTaken(k, id, name) ==
    \E e \in Elems(localData[k]) :
        e.id # id /\ toLowerCase(NameOf(k, e)) = toLowerCase(name)

\* A test that finds no record.
IsUsed_Never(k, id) == FALSE

\* financialRecords.some(r => r.integranteId === id) / r.razonId === id
IsUsed(k, id) ==
    \E r \in Elems(localData["financialRecords"]) :
        IF k = "integrantes" THEN r.integranteId = id ELSE r.razonId = id

NamedKinds == {"integrantes", "razones"}

PagesFrame ==
    UNCHANGED <<variant, loading, error, storage, remote, passes, replayed,
                quiet>>

\* One user action: the handler runs to its end.
Call ==
    /\ variant = "batch"
    /\ events < MaxCalls
    /\ events' = events + 1
    /\ now' = now + 1
    /\ PagesFrame

Rejected(toast) ==
    /\ report' = toast
    /\ UNCHANGED <<localData, pendingOps, nextId>>

handleAdd(k, name) ==
    /\ Call
    /\ IF NameTaken(k, 0, name)
       THEN Rejected("error")
       ELSE /\ IF k = "integrantes" THEN addIntegrante(name, FALSE)
               ELSE addRazon(name, FALSE, FALSE)
            /\ report' = "ok"

\* The Edit button of the reasons page is disabled for a protected reason;
\* the one of the members page is not.
handleSave(k, id, name) ==
    /\ Call
    /\ \E e \in Elems(localData[k]) :
           e.id = id /\ (k = "razones" => ~e.isProtected)
    /\ IF NameTaken(k, id, name)
       THEN Rejected("error")
       ELSE /\ IF k = "integrantes" THEN updateIntegrante(id, name)
               ELSE updateRazon(id, [descripcion |-> name])
            /\ report' = "ok"

\* The Delete button is disabled for a protected entity on both pages.
handleDelete(k, id) ==
    /\ Call
    /\ \E e \in Elems(localData[k]) : e.id = id /\ ~e.isProtected
    /\ IF IsUsed(k, id)
       THEN Rejected("denied")
       ELSE /\ IF k = "integrantes" THEN deleteIntegrante(id)
               ELSE deleteRazon(id)
            /\ report' = "ok"

\* The quick-reason star of the reasons page, disabled for a protected
\* reason.
handleToggleQuickReason(razon) ==
    /\ Call
    /\ ~razon.isProtected
    /\ updateRazon(razon.id, [isQuickReason |-> ~razon.isQuickReason])
    /\ report' = "ok"

\* RecordsForm.onSubmit; recordId = 0: a new record.
onSubmit(recordId, values) ==
    /\ Call
    /\ IF recordId = 0 THEN addFinancialRecord(values)
       ELSE updateFinancialRecord(recordId, values)
    /\ report' = "ok"

DeleteRecord_handleDelete(recordId) ==
    /\ Call
    /\ deleteFinancialRecord(recordId)
    /\ report' = "ok"

\* The toast of a finished import ('... importados en modo "add"').
Imported(mode) == IF mode = "add" THEN "imported:add" ELSE "imported:replace"

\* A row of the members / reasons CSV with no isProtected and no
\* isQuickReason column.
NameRow(k, name) ==
    IF k = "integrantes" THEN [nombre |-> name, isProtected |-> FALSE]
    ELSE [descripcion |-> name, isQuickReason |-> FALSE, isProtected |-> FALSE]

\* processImport of the members page and of the reasons page, destination
\* 'local': in add mode the rows whose name exists are left out before the
\* provider is called.
processImport(k, file, mode) ==
    LET existing == {toLowerCase(NameOf(k, e)) : e \in Elems(localData[k])}
        rows == [i \in DOMAIN file |-> NameRow(k, file[i])]
        isNew(r) == toLowerCase(NameOf(k, r)) \notin existing
        chosen == IF mode = "add" THEN SelectSeq(rows, isNew) ELSE rows
    IN  /\ Call
        /\ IF chosen = <<>>
           THEN Rejected("info")
           ELSE /\ IF k = "integrantes"
                   THEN importIntegrantesLocal(chosen, mode)
                   ELSE importRazonesLocal(chosen, mode)
                /\ report' = Imported(mode)

\* new Map(list.map(e => [name(e).toLowerCase(), e.id])).get(name): the id
\* of the last entity of that name, 0 for undefined.
Resolve(k, name) ==
    LET hits == {i \in DOMAIN localData[k] :
                    toLowerCase(NameOf(k, localData[k][i])) = toLowerCase(name)}
    IN  IF hits = {} THEN 0
        ELSE localData[k][CHOOSE i \in hits : \A j \in hits : j <= i].id

\* The lines of the file that push an error: wrong number of values, too
\* long a descripcion, a member or a reason that is not found.
RowErrors_None(file) == {}

RowErrors(file) ==
    {i \in DOMAIN file :
        \/ file[i].values # RecordHeaders
        \/ file[i].descripcionLength > DESCRIPTION_MAX_LENGTH
        \/ Resolve("integrantes", file[i].integranteNombre) = 0
        \/ Resolve("razones", file[i].razonDescripcion) = 0}

\* processImport of the records page, destination 'local'.
processImportRecords(file, mode) ==
    LET errors == RowErrors(file)
        lines == [i \in DOMAIN file |-> i]
        pushed == SelectSeq(lines, LAMBDA i : i \notin errors)
        recordsToImport ==
            [j \in DOMAIN pushed |->
                LET row == file[pushed[j]]
                IN  [fecha |-> row.fecha,
                     integranteId |-> Resolve("integrantes", row.integranteNombre),
                     razonId |-> Resolve("razones", row.razonDescripcion),
                     movimiento |-> row.movimiento,
                     monto |-> row.monto]]
    IN  /\ Call
        /\ IF errors # {}
           THEN Rejected("error:import")
           ELSE IF recordsToImport = <<>>
           THEN Rejected("info")
           ELSE /\ importFinancialRecordsLocal(recordsToImport, mode)
                /\ report' = Imported(mode)

\* ---- stores the provider can be constructed from (localStorage)
EmptyStore == [k \in Kinds |-> <<>>]

INVITADO ==
    [id |-> 1, nombre |-> <<"B">>, isProtected |-> TRUE,
     createdAt |-> 1, updatedAt |-> 1]
MENSUALIDAD ==
    [id |-> 3, descripcion |-> <<"B">>, isQuickReason |-> TRUE,
     isProtected |-> TRUE, createdAt |-> 1, updatedAt |-> 1]
BETO ==
    [id |-> 2, nombre |-> <<"A">>, isProtected |-> FALSE,
     createdAt |-> 1, updatedAt |-> 1]
SeededStore ==
    [integrantes |-> <<INVITADO>>, razones |-> <<MENSUALIDAD>>,
     financialRecords |-> <<>>]

PopulatedStore ==
    [integrantes |-> <<INVITADO, BETO>>, razones |-> <<MENSUALIDAD>>,
     financialRecords |->
        << [id |-> 5, fecha |-> <<1, 6, 2024>>, integranteId |-> 2,
            razonId |-> 3, movimiento |-> "GASTOS", monto |-> -200,
            createdAt |-> 1, updatedAt |-> 1] >>]

\* ---- lib/data.ts: update and delete of members and reasons
\* One call of a function of lib/data.ts by a client.
ApiCall ==
    /\ events < MaxCalls
    /\ events' = events + 1
    /\ now' = now + 1
    /\ UNCHANGED <<variant, localData, pendingOps, loading, error, storage,
                   passes, replayed, quiet>>

\* A guard that lets every document through.
IsProtectedDoc_Never(k, id) == FALSE

\* docSnap.exists() && docSnap.data().isProtected
IsProtectedDoc(k, id) == \E d \in remote[k] : d.id = id /\ d.isProtected

\* updateDoc(docRef, updates): throws when the document does not exist.
updateDoc(k, id, updates) ==
    IF \E d \in remote[k] : d.id = id
    THEN /\ remote' = [remote EXCEPT ![k] =
                {IF d.id = id THEN Spread(d, updates) ELSE d : d \in @}]
         /\ report' = "ok"
    ELSE /\ report' = "notfound"
         /\ UNCHANGED remote

\* deleteDoc(docRef): no error when the document does not exist.
deleteDoc(k, id) ==
    /\ remote' = [remote EXCEPT ![k] = {d \in @ : d.id # id}]
    /\ report' = "ok"

Thrown(message) ==
    /\ report' = message
    /\ UNCHANGED remote

api_updateIntegrante(id, nombre) ==
    /\ ApiCall
    /\ IF IsProtectedDoc("integrantes", id) THEN Thrown("protected")
       ELSE updateDoc("integrantes", id, [nombre |-> toUpperCase(nombre)])
    /\ UNCHANGED nextId

api_deleteIntegrante(id) ==
    /\ ApiCall
    /\ IF IsProtectedDoc("integrantes", id) THEN Thrown("protected")
       ELSE deleteDoc("integrantes", id)
    /\ UNCHANGED nextId

api_updateRazon(id, updates) ==
    /\ ApiCall
    /\ IF IsProtectedDoc("razones", id) THEN Thrown("protected")
       ELSE updateDoc("razones", id,
                IF "descripcion" \in DOMAIN updates /\ updates.descripcion # <<>>
                THEN Spread(updates,
                         [descripcion |-> toUpperCase(updates.descripcion)])
                ELSE updates)
    /\ UNCHANGED nextId

api_deleteRazon(id) ==
    /\ ApiCall
    /\ IF IsProtectedDoc("razones", id) THEN Thrown("protected")
       ELSE deleteDoc("razones", id)
    /\ UNCHANGED nextId

\* ---- the provider of app/layout.tsx: when the remote store is configured
\* its functions call lib/data.ts and leave the local state to the snapshot
\* listeners.
LayoutFrame ==
    UNCHANGED <<variant, loading, error, storage, passes, replayed, quiet>>

LayoutCall ==
    /\ variant = "hybrid"
    /\ events < MaxCalls
    /\ events' = events + 1
    /\ now' = now + 1
    /\ LayoutFrame

\* lib/data.ts addIntegrante: adds the document unless one of that upper-case
\* name exists.
api_addIntegrante(nombre, isProtected) ==
    LET upperCaseNombre == toUpperCase(nombre)
        empty == \A d \in remote["integrantes"] : d.nombre # upperCaseNombre
    IN  IF empty
        THEN /\ remote' = [remote EXCEPT !["integrantes"] =
                    @ \cup {[id |-> nextId, nombre |-> upperCaseNombre,
                             isProtected |-> isProtected]}]
             /\ nextId' = nextId + 1
        ELSE UNCHANGED <<remote, nextId>>

\* lib/data.ts importIntegrantes: one write batch.
api_importIntegrantes(integrantesToImport, mode) ==
    LET kept == IF mode = "replace"
                THEN {d \in remote["integrantes"] : d.isProtected}
                ELSE remote["integrantes"]
        set == {[id |-> nextId + i - 1,
                 nombre |-> toUpperCase(integrantesToImport[i].nombre),
                 isProtected |-> integrantesToImport[i].isProtected] :
                   i \in DOMAIN integrantesToImport}
    IN  /\ remote' = [remote EXCEPT !["integrantes"] = kept \cup set]
        /\ nextId' = nextId + Len(integrantesToImport)

\* reachable = FALSE: getDocs rejects and the call throws.
Layout_addIntegrante(nombre, isProtected, reachable) ==
    IF isFirebaseConfigured
    THEN /\ IF reachable THEN api_addIntegrante(nombre, isProtected)
            ELSE UNCHANGED <<remote, nextId>>
         /\ UNCHANGED <<localData, pendingOps>>
    ELSE /\ localData' = [localData EXCEPT !["integrantes"] =
                Append(@, [id |-> nextId, nombre |-> toUpperCase(nombre),
                           isProtected |-> isProtected])]
         /\ pendingOps' = addPendingOp(
                PendingOperation("addIntegrante", "integrantes",
                    [nombre |-> nombre, isProtected |-> isProtected]))
         /\ nextId' = nextId + 1
         /\ UNCHANGED remote

Layout_importIntegrantes(integrantesToImport, mode) ==
    /\ api_importIntegrantes(integrantesToImport, mode)
    /\ UNCHANGED <<localData, pendingOps>>

\* MembersPage.handleAdd over this provider.
Layout_handleAdd(name, reachable) ==
    /\ LayoutCall
    /\ IF NameTaken("integrantes", 0, name)
       THEN Rejected("error") /\ UNCHANGED remote
       ELSE /\ Layout_addIntegrante(name, FALSE, reachable)
            /\ report' = IF reachable THEN "ok" ELSE "error"

\* MembersPage.handleSave over this provider: updateIntegrante returns
\* api.updateIntegrante(id, nombre).
Layout_handleSave(id, name) ==
    /\ variant = "hybrid"
    /\ id \in Ids(localData["integrantes"])
    /\ IF NameTaken("integrantes", id, name)
       THEN LayoutCall /\ Rejected("error") /\ UNCHANGED remote
       ELSE api_updateIntegrante(id, name)

\* MembersPage.processImport, destination 'cloud'.
Layout_processImport(file, mode) ==
    LET existingNames ==
            {toLowerCase(e.nombre) : e \in Elems(localData["integrantes"])}
        rows == [i \in DOMAIN file |-> NameRow("integrantes", file[i])]
        isNew(r) == toLowerCase(r.nombre) \notin existingNames
        newIntegrantes == IF mode = "add" THEN SelectSeq(rows, isNew) ELSE rows
    IN  /\ LayoutCall
        /\ IF newIntegrantes = <<>>
           THEN Rejected("info") /\ UNCHANGED remote
           ELSE /\ Layout_importIntegrantes(newIntegrantes, mode)
                /\ report' = Imported(mode)

\* The listener of a collection: the local state becomes the documents of the
\* query.
Layout_onSnapshot(k) ==
    /\ variant = "hybrid"
    /\ localData[k] # SortById(remote[k])
    /\ localData' = [localData EXCEPT ![k] = SortById(remote[k])]
    /\ report' = "snapshot"
    /\ UNCHANGED <<pendingOps, remote, nextId, now, events>>
    /\ LayoutFrame

\* The documents seedData leaves in the remote store.
LayoutSeed ==
    [integrantes |-> {[id |-> 1, nombre |-> <<"B">>, isProtected |-> TRUE]},
     razones |-> {[id |-> 3, descripcion |-> <<"B">>, isQuickReason |-> TRUE,
                   isProtected |-> TRUE]},
     financialRecords |-> {}]

LayoutStore == [k \in Kinds |-> SortById(LayoutSeed[k])]

PagesInit ==
    /\ \/ /\ variant = "batch"
          /\ localData \in {EmptyStore, SeededStore, PopulatedStore}
          /\ remote = [k \in Kinds |-> {}]
       \/ /\ variant = "hybrid"
          /\ localData \in {EmptyStore, LayoutStore}
          /\ remote = LayoutSeed
    /\ pendingOps = <<>>
    /\ loading = FALSE
    /\ error = FALSE
    /\ report = "none"
    /\ storage = [integrantes |-> localData["integrantes"],
                  razones |-> localData["razones"],
                  financialRecords |-> localData["financialRecords"],
                  pendingOps |-> <<>>, lastSyncTimestamp |-> Null]
    /\ now = 2
    /\ nextId = 6
    /\ passes = [p \in Slots |-> IdlePass]
    /\ events = 0
    /\ replayed = {}
    /\ quiet = FALSE

\* addFinancialRecord is given negative amounts too, which the form does not
\* send.
PagesNext ==
    \/ \E k \in {"integrantes", "razones"}, name \in Names :
           handleAdd(k, name)
    \/ \E k \in {"integrantes", "razones"}, name \in Names :
           \E id \in Ids(localData[k]) : handleSave(k, id, name)
    \/ \E k \in {"integrantes", "razones"} :
           \E id \in Ids(localData[k]) : handleDelete(k, id)
    \/ \E f \in FormFechas, mv \in FormMovimientos, m \in Montos :
           \E i \in Ids(localData["integrantes"]),
              r \in Ids(localData["razones"]) :
               onSubmit(0, [fecha |-> f, integranteId |-> i, razonId |-> r,
                            movimiento |-> mv, monto |-> m])
    \/ \E f \in FormFechas, mv \in FormMovimientos, m \in FormMontos :
           \E x \in Elems(localData["financialRecords"]) :
               onSubmit(x.id, [fecha |-> f, integranteId |-> x.integranteId,
                               razonId |-> x.razonId,
                               movimiento |-> mv, monto |-> m])
    \/ \E id \in Ids(localData["financialRecords"]) :
           DeleteRecord_handleDelete(id)
    \/ \E x \in Elems(localData["razones"]) : handleToggleQuickReason(x)
    \/ \E k \in {"integrantes", "razones"}, file \in NameFiles,
          mode \in {"add", "replace"} : processImport(k, file, mode)
    \/ \E file \in RecordFiles, mode \in {"add", "replace"} :
           processImportRecords(file, mode)
    \/ \E name \in Names, reachable \in BOOLEAN :
           Layout_handleAdd(name, reachable)
    \/ \E file \in NameFiles, mode \in {"add", "replace"} :
           Layout_processImport(file, mode)
    \/ \E name \in Names : \E id \in Ids(localData["integrantes"]) :
           Layout_handleSave(id, name)
    \/ \E k \in NamedKinds : Layout_onSnapshot(k)

PagesSpec == PagesInit /\ [][PagesNext]_vars

\* --------------------------------------------------- claims on the store
Records == localData["financialRecords"]

\* INGRESOS has monto >= 0; GASTOS and INVERSION have monto <= 0.
SignOk(r) ==
    /\ r.movimiento = "INGRESOS" => r.monto >= 0
    /\ r.movimiento \in {"GASTOS", "INVERSION"} => r.monto <= 0

\* This step is a call of addFinancialRecord: one record more, one
\* operation more.
AddsRecordNow ==
    /\ Len(localData'["financialRecords"]) = Len(Records) + 1
    /\ Len(pendingOps') = Len(pendingOps) + 1

C12_LocalSignInvariant == \A r \in Range(Records) : SignOk(r)



\* The operations a step appends to the queue.
Appended ==
    {pendingOps'[i] : i \in (DOMAIN pendingOps') \ (DOMAIN pendingOps)}

\* C13: an update or a delete of a protected member or reason fails: the
\* entity is the same after the step and no operation on it is queued.
C13_ProtectedEntityUntouched ==
    [][\A k \in NamedKinds : \A e \in Elems(localData[k]) :
           e.isProtected =>
               /\ e \in Elems(localData'[k])
               /\ \A op \in Appended :
                      ~(op.collection = k /\ op.payload.id = e.id)]_vars

References(k, r) == IF k = "integrantes" THEN r.integranteId ELSE r.razonId

Referenced(k, id) == \E r \in Range(Records) : References(k, r) = id

\* C14: the delete of a member or reason some record refers to is rejected,
\* the store and the queue staying as they were; a delete that goes through
\* is of an entity no record refers to, and removes it.
C14_ReferencedDeleteRejected ==
    [][/\ \A k \in NamedKinds : \A op \in Appended :
              (op.type = "delete" /\ op.collection = k) =>
                  /\ ~Referenced(k, op.payload.id)
                  /\ op.payload.id \in Ids(localData[k])
                  /\ op.payload.id \notin Ids(localData'[k])
       /\ report' = "denied" =>
              /\ UNCHANGED <<localData, pendingOps>>
              /\ \E k \in NamedKinds : \E e \in Elems(localData[k]) :
                     Referenced(k, e.id)]_vars

C14_Witness ==
    /\ report = "denied"
    /\ BETO \in Elems(localData["integrantes"])
    /\ Referenced("integrantes", BETO.id)
    /\ pendingOps = <<>>

\* C15: a replace import of N members or reasons over a collection with M
\* protected ones leaves N + M of them: the M protected ones as they were,
\* none of the others that existed.
C15_ReplaceKeepsProtected ==
    [][\A k \in NamedKinds :
           (report' = "imported:replace" /\ localData'[k] # localData[k]) =>
               LET old == localData[k]
                   new == localData'[k]
                   M == Cardinality({i \in DOMAIN old : old[i].isProtected})
                   N == nextId' - nextId
               IN  /\ N >= 1
                   /\ Len(new) = N + M
                   /\ \A e \in Elems(old) :
                          IF e.isProtected THEN e \in Elems(new)
                          ELSE e.id \notin Ids(new)
                   /\ Cardinality(Ids(new) \ Ids(old)) = N]_vars

C15_Witness ==
    /\ report = "imported:replace"
    /\ events = 1
    /\ Records # <<>>
    /\ Len(localData["integrantes"]) = 3
    /\ localData["integrantes"][1] = INVITADO
    /\ BETO.id \notin Ids(localData["integrantes"])


\* A fecha that names a day of the calendar.
CalendarDay(f) ==
    /\ Len(f) = 3
    /\ f[2] \in 1..12
    /\ f[1] \in 1..DaysIn(f[2], f[3])

Midnight(f) == [invalid |-> FALSE, y |-> f[3], m |-> f[2], d |-> f[1], ms |-> 0]

\* addIntegrante, addRazon and addFinancialRecord of a GASTOS record dated
\* 01/06/2024, called in that order on the empty store, and no other call.
AfterExample ==
    /\ events = 3
    /\ Len(pendingOps) = 3
    /\ \A i \in 1..3 : pendingOps[i].type = "add"
    /\ pendingOps[1].collection = "integrantes"
    /\ pendingOps[2].collection = "razones"
    /\ pendingOps[3].collection = "financialRecords"
    /\ pendingOps[3].payload.movimiento = "GASTOS"
    /\ pendingOps[3].payload.fecha = <<1, 6, 2024>>
    /\ Len(localData["integrantes"]) = 1
    /\ Len(localData["razones"]) = 1
    /\ Len(Records) = 1

\* C17: recordDates is the set of the start-of-day values of the valid
\* fechas of the records in financialRecords; after the example calls on the
\* empty store the record holds monto -200 and recordDates holds 01/06/2024.
C17_RecordDatesIndex ==
    /\ \A r \in Range(Records) :
           CalendarDay(r.fecha) => Midnight(r.fecha) \in recordDates
    /\ \A d \in recordDates :
           /\ ~d.invalid
           /\ d.ms = 0
           /\ \E r \in Range(Records) : r.fecha = <<d.d, d.m, d.y>>
    /\ AfterExample =>
           /\ Records[1].monto = -200
           /\ Records[1].integranteId = localData["integrantes"][1].id
           /\ Records[1].razonId = localData["razones"][1].id
           /\ recordDates = {Midnight(<<1, 6, 2024>>)}

C17_Witness ==
    /\ AfterExample
    /\ Records[1].monto = -200
    /\ Midnight(<<1, 6, 2024>>) \in recordDates


SameName(k, e, x) == toLowerCase(NameOf(k, e)) = toLowerCase(NameOf(k, x))

\* C16: an add-mode import creates no member or reason, in the local
\* collection or in the remote one, of a name that an entity of that
\* collection already bears, case ignored; an import that finds nothing new
\* creates nothing.
C16_AddImportSkipsExistingNames ==
    [][/\ report' = "imported:add" =>
              \A k \in NamedKinds :
                  /\ \A e \in Elems(localData'[k]) :
                         e.id \notin Ids(localData[k]) =>
                             \A x \in Elems(localData[k]) : ~SameName(k, e, x)
                  /\ \A e \in remote'[k] \ remote[k] :
                         \A x \in remote[k] : ~SameName(k, e, x)
       /\ report' = "info" => UNCHANGED <<localData, remote, pendingOps>>]_vars

\* The operation at the tail of the queue after the step describes what the
\* step did to its collection.
MatchesChange(op) ==
    LET k == op.collection
        old == localData[k]
        new == localData'[k]
    IN  /\ \A j \in Kinds \ {k} : localData'[j] = localData[j]
        /\ op.type \in {"add", "update", "delete"}
        /\ op.type = "add" => new = Append(old, op.payload)
        /\ op.type = "delete" =>
               /\ op.payload.id \in Ids(old)
               /\ Elems(new) = {e \in Elems(old) : e.id # op.payload.id}
        /\ op.type = "update" =>
               /\ Ids(new) = Ids(old)
               /\ \A i \in DOMAIN old :
                      IF old[i].id = op.payload.id
                      THEN \A f \in DOMAIN op.payload.updates :
                               new[i][f] = op.payload.updates[f]
                      ELSE new[i] = old[i]

\* C18: a call of add, update or delete that returns changes the local
\* collection in that step, whatever the remote store; it queues exactly one
\* operation, matching the change, unless it wrote to the remote store.
C18_LocalChangeAndOneOperation ==
    [][report' = "ok" =>
           /\ localData' # localData
           /\ \/ /\ Len(pendingOps') = Len(pendingOps) + 1
                 /\ SubSeq(pendingOps', 1, Len(pendingOps)) = pendingOps
                 /\ MatchesChange(pendingOps'[Len(pendingOps')])
                 /\ remote' = remote
              \/ /\ pendingOps' = pendingOps
                 /\ remote' # remote]_vars


\* The delete operations of the snapshot of a pass that ended well.
PushedDeletes ==
    {op \in UNION {Range(passes[p].opsToSync) :
                      p \in {q \in Slots : passes[q].result = "ok"}} :
        op.type = "delete"}

\* C19: once a pass that pushed the delete of an entity has ended well, the
\* remote store presents no live document of that entity, so that no replica
\* pulls it again.
C19_PushedDeleteLeavesNoLiveDocument ==
    \A op \in PushedDeletes :
        \A d \in remote[op.collection] : d.src = op.id => d.isDeleted


\* The operations of s are in the order of the mutations that queued them.
Ascending(s) == \A i, j \in DOMAIN s : i < j => s[i].n < s[j].n

\* C20: the snapshot of a pass holds the operations in the order of their
\* mutations, and the push replays it from the head: each step of the push
\* applies the operations next in the snapshot, one by one in the per-operation
\* version, all of them in sequence in the batch version.
C20_ReplayInMutationOrder ==
    [][\A p \in Slots :
           /\ Ascending(passes'[p].opsToSync)
           /\ (/\ passes'[p].opsToSync = passes[p].opsToSync
               /\ passes'[p].done > passes[p].done) =>
                  LET ops == passes[p].opsToSync
                      from == passes[p].done
                      to == passes'[p].done
                  IN  /\ replayed' = replayed \cup {ops[i].n : i \in (from + 1)..to}
                      /\ variant = "perop" =>
                             /\ to = from + 1
                             /\ remote' = RemoteApply(ops[to], remote, nextId)
                      /\ variant = "batch" =>
                             /\ from = 0 /\ to = Len(ops)
                             /\ remote' = batchProcess(ops, remote, now)]_vars

C20_Witness ==
    \E p \in Slots :
        /\ variant = "perop"
        /\ passes[p].pc = "pull"
        /\ Len(passes[p].opsToSync) >= 2
        /\ passes[p].done = Len(passes[p].opsToSync)
        /\ Numbers(passes[p].opsToSync) \subseteq replayed


\* ---------------------------------------------------- start-up from storage
\* What window.localStorage holds under a key: no item, or a text.
NoItem == [has |-> FALSE, text |-> ""]

StoredTexts == {"", "[", "[]", "[{\"id\":1}]", "null", "{}"}

Items == {NoItem} \cup {[has |-> TRUE, text |-> t] : t \in StoredTexts}

JsonArray(items) == [type |-> "array", items |-> items]
JsonNull == [type |-> "null", items |-> <<>>]
JsonObject == [type |-> "object", items |-> <<>>]

\* JSON.parse on the texts of StoredTexts: the value, or a SyntaxError.
JSONparse(text) ==
    CASE text = "[]" -> [threw |-> FALSE, value |-> JsonArray(<<>>)]
      [] text = "[{\"id\":1}]" ->
             [threw |-> FALSE, value |-> JsonArray(<< [id |-> 1] >>)]
      [] text = "null" -> [threw |-> FALSE, value |-> JsonNull]
      [] text = "{}" -> [threw |-> FALSE, value |-> JsonObject]
      [] OTHER -> [threw |-> TRUE, value |-> JsonNull]

JSONstringify(value) ==
    CASE value.type = "null" -> "null"
      [] value.type = "object" -> "{}"
      [] value.type = "array" /\ value.items = <<>> -> "[]"
      [] OTHER -> "[{\"id\":1}]"

\* storedValue ? JSON.parse(storedValue) : defaultValue, the catch returning
\* defaultValue.
getFromLocalStorage(key, defaultValue) ==
    LET storedValue == storage[key]
    IN  IF ~storedValue.has \/ storedValue.text = "" THEN defaultValue
        ELSE IF JSONparse(storedValue.text).threw THEN defaultValue
        ELSE JSONparse(storedValue.text).value

StoreKeys == {"integrantes", "razones", "financialRecords", "pendingOps"}

StartFrame ==
    UNCHANGED <<variant, error, remote, now, nextId, passes, replayed, quiet>>

\* The useState initialisers and the mount effect of the provider.
AppProvider_mount ==
    /\ report = "none"
    /\ localData' = [k \in Kinds |-> getFromLocalStorage(k, JsonArray(<<>>))]
    /\ pendingOps' = getFromLocalStorage("pendingOps", JsonArray(<<>>))
    /\ loading' = FALSE
    /\ report' = "mounted"
    /\ events' = events + 1
    /\ UNCHANGED storage
    /\ StartFrame

\* The four effects useEffect(() => setToLocalStorage(key, state), [state]).
setToLocalStorage ==
    /\ report = "mounted"
    /\ storage' = [k \in StoreKeys |->
           [has |-> TRUE,
            text |-> JSONstringify(IF k = "pendingOps" THEN pendingOps
                                   ELSE localData[k])]]
    /\ report' = "stored"
    /\ UNCHANGED <<localData, pendingOps, loading, events>>
    /\ StartFrame

StartInit ==
    /\ variant = "batch"
    /\ storage \in [StoreKeys -> Items]
    /\ localData = [k \in Kinds |-> JsonArray(<<>>)]
    /\ pendingOps = JsonArray(<<>>)
    /\ loading = TRUE
    /\ error = FALSE
    /\ report = "none"
    /\ remote = [k \in Kinds |-> {}]
    /\ now = 2
    /\ nextId = 2
    /\ passes = [p \in Slots |-> IdlePass]
    /\ events = 0
    /\ replayed = {}
    /\ quiet = FALSE

StartNext == AppProvider_mount \/ setToLocalStorage

StartSpec == StartInit /\ [][StartNext]_vars

\* C21: whatever the storage holds, the provider starts with a list in each
\* collection and in the queue: the stored list, or the empty default when
\* the item is missing or its text does not parse.
C21_StartsWithLists ==
    report # "none" =>
        /\ \A k \in Kinds : localData[k].type = "array"
        /\ pendingOps.type = "array"


\* A line of the records CSV that the import must not accept, read against
\* the members and reasons of the store.
RowHasError(row) ==
    \/ row.values # RecordHeaders
    \/ row.descripcionLength > DESCRIPTION_MAX_LENGTH
    \/ \A e \in Elems(localData["integrantes"]) :
           toLowerCase(e.nombre) # toLowerCase(row.integranteNombre)
    \/ \A e \in Elems(localData["razones"]) :
           toLowerCase(e.descripcion) # toLowerCase(row.razonDescripcion)

FileHasError(file) == \E i \in DOMAIN file : RowHasError(file[i])

\* The records a step has put into financialRecords are the lines of file, in
\* their order, after the first base records.
ImportedWhole(file, base) ==
    LET new == localData'["financialRecords"]
    IN  /\ Len(new) = base + Len(file)
        /\ \A i \in DOMAIN file :
               /\ new[base + i].fecha = file[i].fecha
               /\ new[base + i].movimiento = file[i].movimiento
               /\ new[base + i].monto = file[i].monto
               /\ new[base + i].id \notin Ids(Records)

\* C22: a records import of a file with a line in error imports nothing and
\* leaves financialRecords as it was; the records an import does put into the
\* store are all the lines of a file none of whose lines is in error.
C22_RecordsImportAllOrNothing ==
    [][/\ report' = "error:import" =>
              /\ UNCHANGED <<localData, pendingOps, nextId>>
              /\ \E file \in RecordFiles : FileHasError(file)
       /\ (/\ report' \in {"imported:add", "imported:replace"}
           /\ localData'["financialRecords"] # Records) =>
              \E file \in RecordFiles :
                  /\ ~FileHasError(file)
                  /\ IF report' = "imported:add"
                     THEN /\ ImportedWhole(file, Len(Records))
                          /\ SubSeq(localData'["financialRecords"], 1,
                                    Len(Records)) = Records
                     ELSE ImportedWhole(file, 0)]_vars

\* The import of the good row and the row of another reason was refused on a
\* store that has the member and the reason of the good row.
C22_Witness ==
    /\ report = "error:import"
    /\ events = 1
    /\ localData = SeededStore
    /\ ~RowHasError(GoodRow)


\* The entity mergeData must present under id: the one of cloud if there is
\* one, else the one of local.
Merged(local, cloud, id) ==
    IF id \in Ids(cloud) THEN CHOOSE c \in Range(cloud) : c.id = id
    ELSE CHOOSE e \in Range(local) : e.id = id

\* C23: the merge of a pull leaves in each collection one entity per
\* identifier of the local list or of the pulled one, the pulled entity
\* where there is one and the local one elsewhere, the deleted ones left out.
C23_MergeUpsertsAndFilters ==
    [][\A p \in Slots :
           (variant = "batch" /\ PullMergesNow(p)) =>
               \A k \in Kinds :
                   LET local == localData[k]
                       cloud == getChangesSince(remote, passes[p].lastSync)[k]
                       new == localData'[k]
                       live == {id \in Ids(local) \cup Ids(cloud) :
                                   ~Merged(local, cloud, id).isDeleted}
                   IN  /\ Len(new) = Cardinality(Ids(new))
                       /\ Range(new) = {Merged(local, cloud, id) : id \in live}]_vars

\* A pass has ended well whose pull returned a deleted document, which the
\* collection does not present, and a live one, which it does.
C23_Witness ==
    \E p \in Slots, k \in Kinds :
        /\ variant = "batch"
        /\ passes[p].result = "ok"
        /\ InFlight = {}
        /\ \E d \in remote[k] :
               /\ d.isDeleted
               /\ passes[p].lastSync = Null \/ d.updatedAt > passes[p].lastSync
               /\ d.id \notin Ids(localData[k])
        /\ \E d \in remote[k] : ~d.isDeleted /\ d \in Range(localData[k])


Live(set) == {e \in set : ~e.isDeleted}

\* C24: after a pass that ended well with the queue empty, no other pass in
\* flight and no call since, each local collection holds the live documents
\* of the remote one.
C24_SyncedStoreEqualsRemote ==
    quiet => \A k \in Kinds : Live(Range(localData[k])) = Live(remote[k])


\* ------------------------------------------- the pull, request and response
\* The pull of the batch provider as the two ends of its await: the remote
\* store answers getChangesSince(lastSyncTimestamp), and later the response
\* reaches the provider, which merges it and writes the watermark. Another
\* replica writes to the remote store in between.

\* The remote store answers the pull of pass p.
PullServed(p) ==
    /\ variant = "batch"
    /\ passes[p].pc = "pull"
    /\ passes' = [passes EXCEPT ![p] =
           [pc |-> "response",
            cloud |-> getChangesSince(remote, passes[p].lastSync)] @@ passes[p]]
    /\ UNCHANGED <<variant, localData, pendingOps, loading, error, report,
                   storage, remote, now, nextId, events, replayed, quiet>>

\* The response reaches the provider: merge, watermark, toast.
PullReturns(p) ==
    /\ Persisted
    /\ passes[p].pc = "response"
    /\ localData' = [k \in Kinds |-> mergeData(localData[k], passes[p].cloud[k])]
    /\ storage' = [storage EXCEPT !.lastSyncTimestamp = now]
    /\ now' = now + 1
    /\ report' = "ok"
    /\ loading' = FALSE
    /\ passes' = [passes EXCEPT ![p] =
           [IdlePass EXCEPT !.result = "ok", !.lastSync = passes[p].lastSync,
                            !.pulled = TRUE]]
    /\ quiet' = (pendingOps = <<>> /\ InFlight = {p})
    /\ UNCHANGED <<variant, pendingOps, error, remote, nextId, events, replayed>>

\* Another replica commits a new document, stamped with the time of the
\* commit.
RemoteWrite(k) ==
    /\ events < MaxEvents
    /\ remote' = [remote EXCEPT ![k] = @ \cup {Entity(nextId, NewName, FALSE, now)}]
    /\ nextId' = nextId + 1
    /\ now' = now + 1
    /\ events' = events + 1
    /\ quiet' = FALSE
    /\ UNCHANGED <<variant, localData, pendingOps, loading, error, report,
                   storage, passes, replayed>>

PullInit == Init /\ variant = "batch"

PullNext ==
    \/ PersistEffects
    \/ syncWithCloud
    \/ \E p \in Slots : PullServed(p)
    \/ \E p \in Slots : PullReturns(p)
    \/ \E k \in Kinds : RemoteWrite(k)

PullSpec == PullInit /\ [][PullNext]_vars

\* C25: the watermark never passes a remote change the local store has not
\* merged: every live remote document stamped at or before the stored
\* watermark, which no later pull returns, is in the local collection.
C25_WatermarkSkipsNoChange ==
    \A k \in Kinds : \A d \in remote[k] :
        (/\ storage.lastSyncTimestamp # Null
         /\ d.updatedAt <= storage.lastSyncTimestamp
         /\ ~d.isDeleted) => d \in Range(localData[k])

\* ------------------------------------------------ replay, at most once
\* The operations (n) whose remote write pass p performs in this step: the
\* whole snapshot of a batch, the next operation of a per-operation push.
AppliedNow(p) ==
    IF passes[p].pc = "push" /\ passes'[p].done > passes[p].done
    THEN {passes[p].opsToSync[i].n : i \in (passes[p].done + 1)..passes'[p].done}
    ELSE {}

\* C26: no remote write replays an operation an earlier remote write has
\* already applied, whatever the passes, their failures and their overlap.
C26_ReplayedAtMostOnce ==
    [][\A p \in Slots : AppliedNow(p) \cap replayed = {}]_vars

\* ------------------------------------------------ timestamps of the store
\* The provider is constructed anew in this step.
RestartsNow ==
    /\ events' = events + 1
    /\ report' = "none"
    /\ localData' = [k \in Kinds |-> storage[k]]
    /\ passes' = [p \in Slots |-> IdlePass]

\* C27: in the provider that stamps its entities, no local update and no
\* sync merge lowers the updatedAt the local store holds for an identifier.
C27_UpdatedAtNeverDecreases ==
    [][(variant = "batch" /\ ~RestartsNow) =>
          \A k \in Kinds : \A e \in Range(localData[k]) :
              \A f \in Range(localData'[k]) :
                  f.id = e.id => f.updatedAt >= e.updatedAt]_vars

\* ------------------------------------------------ partial update of a reason
\* The operation this step queues, when it is an update of a reason that
\* carries the quick-reason flag.
QueuesToggleNow ==
    /\ Len(pendingOps') = Len(pendingOps) + 1
    /\ pendingOps'[Len(pendingOps')].type = "update"
    /\ pendingOps'[Len(pendingOps')].collection = "razones"
    /\ "isQuickReason" \in DOMAIN pendingOps'[Len(pendingOps')].payload.updates

\* C28: toggling the quick-reason flag of a reason leaves its descripcion,
\* isProtected, id and createdAt as they were in the local store, and the
\* queued payload carries no other descripcion.
C28_ToggleKeepsOtherFields ==
    [][QueuesToggleNow =>
          LET op == pendingOps'[Len(pendingOps')]
          IN  \A i \in DOMAIN localData["razones"] :
                  localData["razones"][i].id = op.payload.id =>
                      LET r == localData["razones"][i]
                          q == localData'["razones"][i]
                      IN  /\ q.descripcion = r.descripcion
                          /\ q.isProtected = r.isProtected
                          /\ q.id = r.id
                          /\ q.createdAt = r.createdAt
                          /\ "descripcion" \in DOMAIN op.payload.updates =>
                                 op.payload.updates.descripcion = r.descripcion]_vars

\* ------------------------------------------ replay of a queued addRazon
\* The per-operation provider (the second provider of AppProvider.tsx) with
\* the reasons' fields: addRazon, the push loop of syncWithCloud, its pull.
ReplayFrame ==
    UNCHANGED <<variant, error, storage, passes, replayed, quiet>>

\* addRazon of the per-operation provider: the reason is created in the
\* local list, the payload holds the three arguments.
Perop_addRazon(descripcion, isQuickReason, isProtected) ==
    /\ ~loading
    /\ events < MaxCalls
    /\ events' = events + 1
    /\ now' = now + 1
    /\ LET newRazon ==
               [id |-> nextId, descripcion |-> toUpperCase(descripcion),
                isQuickReason |-> isQuickReason, isProtected |-> isProtected]
       IN  localData' = [localData EXCEPT !["razones"] = Append(@, newRazon)]
    /\ pendingOps' = addPendingOp(
           [type |-> "addRazon",
            payload |-> [descripcion |-> descripcion,
                         isQuickReason |-> isQuickReason,
                         isProtected |-> isProtected]])
    /\ nextId' = nextId + 1
    /\ report' = "ok"
    /\ UNCHANGED <<loading, remote>>
    /\ ReplayFrame

\* lib/data.ts addRazon(descripcion, isQuickReason, isProtected, userId) on
\* the reasons collection docs; addDoc names the new document newId.
api_addRazon(docs, descripcion, isQuickReason, isProtected, newId) ==
    LET upperCaseDesc == toUpperCase(descripcion)
    IN  IF \A d \in docs : d.descripcion # upperCaseDesc
        THEN docs \cup {[id |-> newId, descripcion |-> upperCaseDesc,
                         isQuickReason |-> isQuickReason,
                         isProtected |-> isProtected]}
        ELSE docs

\* case 'addRazon' of the push loop: the call passes op.payload.isProtected
\* second and op.payload.isQuickReason third.
RECURSIVE ReplayAddRazon(_, _, _)
ReplayAddRazon(ops, docs, newId) ==
    IF ops = <<>> THEN docs
    ELSE ReplayAddRazon(Tail(ops),
             api_addRazon(docs, Head(ops).payload.descripcion,
                          Head(ops).payload.isProtected,
                          Head(ops).payload.isQuickReason, newId),
             newId + 1)

\* syncWithCloud up to setPendingOps([]).
Perop_push ==
    /\ ~loading
    /\ loading' = TRUE
    /\ remote' = [remote EXCEPT !["razones"] =
                      ReplayAddRazon(pendingOps, @, nextId)]
    /\ nextId' = nextId + Len(pendingOps)
    /\ pendingOps' = <<>>
    /\ UNCHANGED <<localData, report, now, events>>
    /\ ReplayFrame

\* syncWithCloud from the pull to its end.
Perop_pull ==
    /\ loading
    /\ loading' = FALSE
    /\ localData' = [k \in Kinds |-> getData(remote, k)]
    /\ UNCHANGED <<pendingOps, remote, nextId, report, now, events>>
    /\ ReplayFrame

ReplayInit ==
    /\ variant = "perop"
    /\ localData = EmptyStore
    /\ pendingOps = <<>>
    /\ loading = FALSE
    /\ error = FALSE
    /\ report = "none"
    /\ storage = [integrantes |-> <<>>, razones |-> <<>>,
                  financialRecords |-> <<>>, pendingOps |-> <<>>,
                  lastSyncTimestamp |-> Null]
    /\ remote = [k \in Kinds |-> {}]
    /\ now = 2
    /\ nextId = 6
    /\ passes = [p \in Slots |-> IdlePass]
    /\ events = 0
    /\ replayed = {}
    /\ quiet = FALSE

ReplayNext ==
    \/ \E d \in Names, q \in BOOLEAN, p \in BOOLEAN : Perop_addRazon(d, q, p)
    \/ Perop_push
    \/ Perop_pull

ReplaySpec == ReplayInit /\ [][ReplayNext]_vars

\* The first reason of the local list with this descripcion.
FirstLocal(descripcion) ==
    LET i == CHOOSE i \in DOMAIN localData["razones"] :
                 /\ localData["razones"][i].descripcion = descripcion
                 /\ \A j \in 1..(i - 1) :
                        localData["razones"][j].descripcion # descripcion
    IN  localData["razones"][i]

\* C29: every reason the replay of the queue creates in the remote store has
\* the isQuickReason, isProtected and descripcion of the reason addRazon
\* created in the local list.
C29_ReplayedReasonKeepsFlags ==
    [][(~loading /\ loading') =>
          \A d \in remote'["razones"] \ remote["razones"] :
              /\ \E r \in Elems(localData["razones"]) :
                     r.descripcion = d.descripcion
              /\ d.isQuickReason = FirstLocal(d.descripcion).isQuickReason
              /\ d.isProtected = FirstLocal(d.descripcion).isProtected]_vars

\* ------------------------------------------ lib/data.ts, protected documents
\* lib/data.ts importRazones: one write batch.
api_importRazones(razonesToImport, mode) ==
    LET kept == IF mode = "replace"
                THEN {d \in remote["razones"] : d.isProtected}
                ELSE remote["razones"]
        set == {Spread(razonesToImport[i],
                       [id |-> nextId + i - 1,
                        descripcion |->
                            toUpperCase(razonesToImport[i].descripcion)]) :
                   i \in DOMAIN razonesToImport}
    IN  /\ remote' = [remote EXCEPT !["razones"] = kept \cup set]
        /\ nextId' = nextId + Len(razonesToImport)

api_import(k, file, mode) ==
    /\ ApiCall
    /\ LET rows == [i \in DOMAIN file |-> NameRow(k, file[i])]
       IN  IF k = "integrantes" THEN api_importIntegrantes(rows, mode)
           ELSE api_importRazones(rows, mode)
    /\ report' = Imported(mode)

\* The remote store of a user: the seeded protected documents and two others.
ApiStore ==
    [integrantes |-> LayoutSeed["integrantes"] \cup
                     {[id |-> 2, nombre |-> <<"A">>, isProtected |-> FALSE]},
     razones |-> LayoutSeed["razones"] \cup
                 {[id |-> 4, descripcion |-> <<"A">>, isQuickReason |-> FALSE,
                   isProtected |-> FALSE]},
     financialRecords |-> {}]

\* The identifiers a caller may name: those of the documents, and one of no
\* document.
DocIds(k) == {d.id : d \in remote[k]} \cup {0}

RazonUpdates ==
    {[descripcion |-> n] : n \in Names} \cup
    {[isQuickReason |-> b] : b \in BOOLEAN}

ApiInit ==
    /\ variant = "hybrid"
    /\ localData = EmptyStore
    /\ pendingOps = <<>>
    /\ loading = FALSE
    /\ error = FALSE
    /\ report = "none"
    /\ storage = [integrantes |-> <<>>, razones |-> <<>>,
                  financialRecords |-> <<>>, pendingOps |-> <<>>,
                  lastSyncTimestamp |-> Null]
    /\ remote = ApiStore
    /\ now = 2
    /\ nextId = 6
    /\ passes = [p \in Slots |-> IdlePass]
    /\ events = 0
    /\ replayed = {}
    /\ quiet = FALSE

ApiNext ==
    \/ \E id \in DocIds("integrantes"), n \in Names : api_updateIntegrante(id, n)
    \/ \E id \in DocIds("integrantes") : api_deleteIntegrante(id)
    \/ \E id \in DocIds("razones"), u \in RazonUpdates : api_updateRazon(id, u)
    \/ \E id \in DocIds("razones") : api_deleteRazon(id)
    \/ \E k \in NamedKinds, file \in NameFiles, mode \in {"add", "replace"} :
           api_import(k, file, mode)

ApiSpec == ApiInit /\ [][ApiNext]_vars

\* The step is a call of an update or delete function on document id of k.
CalledOn(k, id) ==
    IF k = "integrantes"
    THEN \/ \E n \in Names : api_updateIntegrante(id, n)
         \/ api_deleteIntegrante(id)
    ELSE \/ \E u \in RazonUpdates : api_updateRazon(id, u)
         \/ api_deleteRazon(id)

\* C30: no call of lib/data.ts changes or removes a protected document, the
\* replace import included, and an update or delete called on a protected
\* document throws and leaves the whole store as it was.
C30_ProtectedDocumentsKept ==
    [][\A k \in NamedKinds : \A d \in remote[k] :
          d.isProtected =>
              /\ d \in remote'[k]
              /\ CalledOn(k, d.id) =>
                     report' = "protected" /\ remote' = remote]_vars

\* An update or delete of a protected document was refused after a replace
\* import that removed the unprotected documents.
C30_Witness ==
    /\ report = "protected"
    /\ events = 3
    /\ \A k \in NamedKinds : \E d \in remote[k] : d.isProtected /\ d \in ApiStore[k]
    /\ \A k \in NamedKinds : ApiStore[k] \ remote[k] # {}

\* ------------------------------------------ lib/data.ts, financial records
\* (await getDoc(docRef)).data()?.movimiento: "" stands for undefined.
StoredMovimiento(id) ==
    IF \E d \in remote["financialRecords"] : d.id = id
    THEN (CHOOSE d \in remote["financialRecords"] : d.id = id).movimiento
    ELSE ""

api_addFinancialRecord(record) ==
    /\ ApiCall
    /\ remote' = [remote EXCEPT !["financialRecords"] = @ \cup
           {Spread(record,
                   [id |-> nextId,
                    monto |-> NormalizedMonto(record.movimiento, record.monto)])}]
    /\ nextId' = nextId + 1
    /\ report' = "ok"

\* The sign is looked at only when the update carries monto.
api_updateFinancialRecord(id, updates) ==
    /\ ApiCall
    /\ LET finalMovimiento ==
               IF "movimiento" \in DOMAIN updates THEN updates.movimiento
               ELSE StoredMovimiento(id)
           final ==
               IF "monto" \in DOMAIN updates
               THEN Spread(updates,
                        [monto |-> NormalizedMonto(finalMovimiento, updates.monto)])
               ELSE updates
       IN  updateDoc("financialRecords", id, final)
    /\ UNCHANGED nextId

api_deleteFinancialRecord(id) ==
    /\ ApiCall
    /\ deleteDoc("financialRecords", id)
    /\ UNCHANGED nextId

\* One write batch: in replace mode every document of the user is deleted.
api_importFinancialRecords(recordsToImport, mode) ==
    /\ ApiCall
    /\ LET kept == IF mode = "replace" THEN {} ELSE remote["financialRecords"]
           set == {Spread(recordsToImport[i],
                       [id |-> nextId + i - 1,
                        monto |-> NormalizedMonto(recordsToImport[i].movimiento,
                                                  recordsToImport[i].monto)]) :
                      i \in DOMAIN recordsToImport}
       IN  remote' = [remote EXCEPT !["financialRecords"] = kept \cup set]
    /\ nextId' = nextId + Len(recordsToImport)
    /\ report' = Imported(mode)

\* A record as the callers of the API send it.
ApiRecord(movimiento, monto) ==
    [fecha |-> <<1, 6, 2024>>, integranteId |-> 1, razonId |-> 3,
     movimiento |-> movimiento, monto |-> monto]

\* The partial updates that carry monto, movimiento or both.
RecordUpdates ==
    {[monto |-> m] : m \in Montos} \cup
    {[movimiento |-> mv] : mv \in Movimientos} \cup
    {[movimiento |-> mv, monto |-> m] : mv \in Movimientos, m \in Montos}

RecordApiInit == ApiInit

RecordApiNext ==
    \/ \E mv \in Movimientos, m \in Montos :
           api_addFinancialRecord(ApiRecord(mv, m))
    \/ \E id \in DocIds("financialRecords"), u \in RecordUpdates :
           api_updateFinancialRecord(id, u)
    \/ \E id \in DocIds("financialRecords") : api_deleteFinancialRecord(id)
    \/ \E mv \in Movimientos, m \in Montos, mode \in {"add", "replace"} :
           api_importFinancialRecords(<<ApiRecord(mv, m)>>, mode)

RecordApiSpec == RecordApiInit /\ [][RecordApiNext]_vars

\* C31: every record of the remote store, written by addFinancialRecord,
\* importFinancialRecords or updateFinancialRecord, has the sign of its
\* movimiento: INGRESOS monto >= 0, GASTOS and INVERSION monto <= 0.
C31_RemoteSignInvariant ==
    \A d \in remote["financialRecords"] : SignOk(d)

\* ------------------------------------------ references of the records
\* C32: in the local store of the provider every record's integranteId and
\* razonId are identifiers of a member and of a reason of the local lists.
C32_RecordsReferenceLocalEntities ==
    variant = "batch" =>
        \A r \in Range(Records) :
            /\ r.integranteId \in Ids(localData["integrantes"])
            /\ r.razonId \in Ids(localData["razones"])

\* ------------------------------------------ names of members and reasons
\* C33: no two members and no two reasons of the local lists have names
\* that are equal ignoring case.
C33_NamesUniqueIgnoringCase ==
    variant = "batch" =>
        \A k \in NamedKinds : \A i, j \in DOMAIN localData[k] :
            SameName(k, localData[k][i], localData[k][j]) => i = j

\* ------------------------------------------ uppercase names
\* No lower-case letter.
IsUpper(s) == \A i \in DOMAIN s : s[i] \notin {"a", "b"}

\* The names an operation of the queue carries.
PayloadNames(op) ==
    IF op.collection \notin NamedKinds \/ op.type = "delete" THEN {}
    ELSE LET p == IF op.type = "update" THEN op.payload.updates ELSE op.payload
         IN  {p[f] : f \in DOMAIN p \cap {"nombre", "descripcion"}}

\* C34: every nombre and descripcion of the local lists, of the payloads of
\* the queued operations and of the documents of the remote store is in
\* upper case.
C34_NamesAreUpperCase ==
    /\ \A k \in NamedKinds : \A e \in Elems(localData[k]) : IsUpper(NameOf(k, e))
    /\ \A i \in DOMAIN pendingOps : \A n \in PayloadNames(pendingOps[i]) : IsUpper(n)
    /\ \A k \in NamedKinds : \A d \in remote[k] : IsUpper(NameOf(k, d))

\* The batch provider after an add and a rename of a member or reason and
\* an import: the queue holds both operations with their names.
C34_Witness ==
    /\ variant = "batch"
    /\ report = "imported:add"
    /\ \E i, j \in DOMAIN pendingOps :
           /\ pendingOps[i].type = "add"
           /\ pendingOps[j].type = "update"
           /\ PayloadNames(pendingOps[i]) # {}
           /\ PayloadNames(pendingOps[j]) # {}

\* ------------------------------------------ layout.tsx, syncPendingOperations
\* The loop of the mount effect of the provider of app/layout.tsx, on the
\* queue read from localStorage. passes[1].opsToSync is remainingOps; the
\* number n of an operation stands for the identity of its object.
MountOps ==
    {Op(1, "add", "integrantes", 2, 2, FALSE, 0),
     Op(2, "update", "integrantes", 1, 3, FALSE, 0),
     Op(3, "add", "financialRecords", 3, 4, FALSE, 0),
     Op(4, "delete", "razones", 9, 0, FALSE, 0)}

\* The longest queue the loop is started on.
MaxQueue == 3

\* The queues an earlier session can have stored: each operation once.
MountQueues ==
    {q \in UNION {[1..n -> MountOps] : n \in 0..MaxQueue} :
        \A i, j \in DOMAIN q : q[i] = q[j] => i = j}

\* An acknowledgement that empties the queue.
Acknowledge_All(currentOps, op) == <<>>

\* setPendingOps(currentOps => currentOps.filter(p => p !== op))
Acknowledge(currentOps, op) ==
    LET other(q) == q.n # op.n IN SelectSeq(currentOps, other)

MountFrame == UNCHANGED <<variant, localData, loading, error, now, events, quiet>>

\* syncPendingOperations(): the early return, or the copy of the queue.
syncPendingOperations ==
    /\ passes[1].pc = "idle"
    /\ passes[1].result = "none"
    /\ passes' = [passes EXCEPT ![1] =
           IF pendingOps = <<>>
           THEN [IdlePass EXCEPT !.result = "ok"]
           ELSE [IdlePass EXCEPT !.pc = "push", !.opsToSync = pendingOps]]
    /\ UNCHANGED <<pendingOps, report, storage, remote, nextId, replayed>>
    /\ MountFrame

\* One turn of the loop: remainingOps.shift(), the awaited call of lib/data.ts
\* and, when it returns, the removal of op from the queue; when it throws,
\* success = false and break.
Mount_replay ==
    /\ passes[1].pc = "push"
    /\ LET op == Head(passes[1].opsToSync)
           rest == Tail(passes[1].opsToSync)
           out == RemoteOutcome(op, remote)
       IN  IF out = "ok"
           THEN /\ remote' = RemoteApply(op, remote, nextId)
                /\ nextId' = IF op.type = "add" THEN nextId + 1 ELSE nextId
                /\ pendingOps' = Acknowledge(pendingOps, op)
                /\ replayed' = replayed \cup {op.n}
                /\ passes' = [passes EXCEPT ![1] =
                       IF rest = <<>>
                       THEN [IdlePass EXCEPT !.result = "ok"]
                       ELSE [@ EXCEPT !.opsToSync = rest]]
                /\ report' = IF rest = <<>> THEN "ok" ELSE report
           ELSE /\ passes' = [passes EXCEPT ![1].pc = "idle",
                                            ![1].result = out,
                                            ![1].failedOp = op.n]
                /\ report' = "error"
                /\ UNCHANGED <<pendingOps, remote, nextId, replayed>>
    /\ UNCHANGED storage
    /\ MountFrame

\* The awaited call rejects because the store cannot be reached.
Mount_replayFails ==
    /\ passes[1].pc = "push"
    /\ passes' = [passes EXCEPT ![1].pc = "idle", ![1].result = "network",
                                ![1].failedOp = Head(passes[1].opsToSync).n]
    /\ report' = "error"
    /\ UNCHANGED <<pendingOps, storage, remote, nextId, replayed>>
    /\ MountFrame

MountInit ==
    /\ variant = "hybrid"
    /\ localData = [k \in Kinds |-> <<>>]
    /\ pendingOps \in MountQueues
    /\ loading = TRUE
    /\ error = FALSE
    /\ report = "none"
    /\ storage = [integrantes |-> <<>>, razones |-> <<>>,
                  financialRecords |-> <<>>, pendingOps |-> pendingOps,
                  lastSyncTimestamp |-> Null]
    /\ remote = [k \in Kinds |-> IF k = "integrantes" THEN {Seed} ELSE {}]
    /\ now = 2
    /\ nextId = 10
    /\ passes = [p \in Slots |-> IdlePass]
    /\ events = 0
    /\ replayed = {}
    /\ quiet = FALSE

MountNext ==
    \/ syncPendingOperations
    \/ Mount_replay
    \/ Mount_replayFails
    \/ PersistEffects

MountSpec == MountInit /\ [][MountNext]_vars

\* The loop takes its next operation in this step.
TurnNow == passes[1].pc = "push" /\ passes' # passes

\* The call of this turn threw.
TurnFailsNow == TurnNow /\ passes'[1].failedOp # 0

\* C35: a turn whose call returns removes from pendingOps the operation it
\* replayed and no other, the rest keeping their order; a turn whose call
\* throws ends the loop with the queue as it was, the failed operation and
\* all later ones in it and the later ones untried.
C35_AcknowledgedOneByOne ==
    [][/\ (TurnNow /\ ~TurnFailsNow) =>
              LET op == Head(passes[1].opsToSync)
              IN  /\ op.n \in replayed'
                  /\ op \notin Range(pendingOps')
                  /\ Len(pendingOps') = Len(pendingOps) - 1
                  /\ InOrder(pendingOps', pendingOps)
       /\ TurnFailsNow =>
              /\ pendingOps' = pendingOps
              /\ passes'[1].pc = "idle"
              /\ InOrder(passes[1].opsToSync, pendingOps')
              /\ \A i \in DOMAIN passes[1].opsToSync :
                     passes[1].opsToSync[i].n \notin replayed'
              /\ remote' = remote]_vars

\* The loop replayed one operation and stopped at the next, which is still
\* queued with a third behind it.
C35_Witness ==
    /\ passes[1].result \in {"protected", "network"}
    /\ Cardinality(replayed) = 1
    /\ Len(pendingOps) = 2
    /\ pendingOps[1].n = passes[1].failedOp

\* ------------------------------------------ termination of a pass
\* Every remote call eventually returns or throws, and the effects that
\* persist the state run after each render.
RemoteCallReturns ==
    \E p \in Slots : BatchOk(p) \/ PushOp(p) \/ PullOk(p)

Fairness == WF_vars(PersistEffects) /\ WF_vars(RemoteCallReturns)

\* The external events of a behaviour checked for termination.
LiveEvents == 3

\* The passes with the mutations of the members that fill the queue: an add,
\* and an update that the store rejects when the member is protected.
LiveNext ==
    \/ PersistEffects
    \/ \E p \in Slots : BatchOk(p)
    \/ \E p \in Slots : PushOp(p)
    \/ \E p \in Slots : PullOk(p)
    \/ events < LiveEvents /\ AddEntity("integrantes")
    \/ \E id \in Ids(localData["integrantes"]) :
           events < LiveEvents /\ UpdateEntity("integrantes", id)
    \/ events < LiveEvents /\ syncWithCloud
    \/ \E p \in Slots : events < LiveEvents /\ PushFails(p)
    \/ \E p \in Slots : events < LiveEvents /\ PullFails(p)

LiveSpec == Init /\ [][LiveNext]_vars /\ Fairness

\* C36: every pass that has started ends, and loading is false when it
\* does, whether it succeeded or one of its calls threw.
C36_PassEndsNotLoading ==
    \A p \in Slots :
        (passes[p].pc # "idle") ~> (passes[p].pc = "idle" /\ ~loading)

\* A pass whose push threw has ended and loading is false.
C36_Witness ==
    \E p \in Slots :
        /\ passes[p].pc = "idle"
        /\ passes[p].result \in {"network", "protected", "notfound"}
        /\ passes[p].failedOp # 0
        /\ ~loading

\* ------------------------------------------ lib/data.ts, concurrent adds
\* addIntegrante and addRazon of lib/data.ts called by clients that run
\* together (seedData, the replay of the queue, another tab). Each call is
\* two requests: the query for the upper-case name, then addDoc when the
\* snapshot was empty. passes[p] is the call in flight in slot p.
AddFrame ==
    UNCHANGED <<variant, localData, pendingOps, loading, error, report,
                storage, now, replayed, quiet>>

\* The call up to the answer of getDocs(q).
api_add_getDocs(p, k, name) ==
    /\ passes[p].pc = "idle"
    /\ events < MaxCalls
    /\ events' = events + 1
    /\ LET upperCaseName == toUpperCase(name)
       IN  passes' = [passes EXCEPT ![p] =
               [pc |-> "queried", collection |-> k, name |-> upperCaseName,
                empty |-> \A d \in remote[k] : NameOf(k, d) # upperCaseName]]
    /\ UNCHANGED <<remote, nextId>>
    /\ AddFrame

\* if (querySnapshot.empty) await addDoc(...)
api_add_addDoc(p) ==
    /\ passes[p].pc = "queried"
    /\ LET k == passes[p].collection
           newDoc == IF k = "integrantes"
                     THEN [id |-> nextId, nombre |-> passes[p].name,
                           isProtected |-> FALSE]
                     ELSE [id |-> nextId, descripcion |-> passes[p].name,
                           isQuickReason |-> FALSE, isProtected |-> FALSE]
       IN  IF passes[p].empty
           THEN /\ remote' = [remote EXCEPT ![k] = @ \cup {newDoc}]
                /\ nextId' = nextId + 1
           ELSE UNCHANGED <<remote, nextId>>
    /\ passes' = [passes EXCEPT ![p] = IdlePass]
    /\ UNCHANGED events
    /\ AddFrame

\* The store of an owner with no document yet.
AddInit ==
    /\ variant = "hybrid"
    /\ localData = EmptyStore
    /\ pendingOps = <<>>
    /\ loading = FALSE
    /\ error = FALSE
    /\ report = "none"
    /\ storage = [integrantes |-> <<>>, razones |-> <<>>,
                  financialRecords |-> <<>>, pendingOps |-> <<>>,
                  lastSyncTimestamp |-> Null]
    /\ remote = [k \in Kinds |-> {}]
    /\ now = 2
    /\ nextId = 6
    /\ passes = [p \in Slots |-> IdlePass]
    /\ events = 0
    /\ replayed = {}
    /\ quiet = FALSE

AddNext ==
    \/ \E p \in Slots, k \in NamedKinds, name \in Names :
           api_add_getDocs(p, k, name)
    \/ \E p \in Slots : api_add_addDoc(p)

AddSpec == AddInit /\ [][AddNext]_vars

\* C37: the remote store never holds two members, or two reasons, of the
\* same upper-case name.
C37_RemoteNamesUnique ==
    \A k \in NamedKinds : \A d1, d2 \in remote[k] :
        NameOf(k, d1) = NameOf(k, d2) => d1 = d2

====
